---- MODULE Spec2Model ----
(***************************************************************************)
(* Dynamic Schema & Aggregation Engine of SPLP-ANRI.                       *)
(*                                                                         *)
(* The model covers one registered schema (table_id = TableId) with its    *)
(* physical table, the record write operations of TableService, the        *)
(* monthly summary table of GenericSummaryService and the process-wide     *)
(* cache of cache_service.py with the read paths that populate it; the     *)
(* schema registry of TableService (create, register, update, delete of    *)
(* table definitions and their physical tables on MySQL), its name         *)
(* sanitizer, and CacheService with both of its backends; the identifiers  *)
(* in the SQL text of the summary and statistics paths; upsert_data and    *)
(* get_dynamic_data as interleaved steps of concurrent sessions; an        *)
(* InMemoryCacheBackend of a given max_size; and process_upload of         *)
(* UploadService.                                                          *)
(*                                                                         *)
(* Value encoding (TLC cannot compare integers with strings):              *)
(*   n >= 0   the Python int n (or the numeric text "n")                   *)
(*   Null     Python None / SQL NULL                                       *)
(*   Txt      a non-numeric string such as "abc"                           *)
(*   Absent   the key is not in the payload dict                           *)
(***************************************************************************)
EXTENDS Integers, Sequences, FiniteSets, TLC

Null == 0 - 1
Txt == 0 - 2
Absent == 0 - 3

(* ---------------- bounds of the model ---------------- *)
MaxRows == 2
MaxStored == 3
MaxCalls == 3
MaxFileRows == 2

(* ---------------- the registered schema ---------------- *)
TableId == 1

\* ColumnDefinition rows of the schema, in "order"
Columns ==
  << [name |-> "a", data_type |-> "integer", is_summable |-> TRUE],
     [name |-> "b", data_type |-> "integer", is_summable |-> TRUE],
     [name |-> "ket", data_type |-> "text", is_summable |-> FALSE] >>

ColNames == {Columns[i].name : i \in 1..Len(Columns)}

ColDef(c) == CHOOSE d \in {Columns[i] : i \in 1..Len(Columns)} : d.name = c

IsSummableInt(c) == ColDef(c).is_summable /\ ColDef(c).data_type = "integer"

SumIntCols == {c \in ColNames : IsSummableInt(c)}

Units == {1, 2}

Dates ==
  { [y |-> 2025, m |-> 1, d |-> 15],
    [y |-> 2025, m |-> 1, d |-> 20],
    [y |-> 2025, m |-> 2, d |-> 10] }

Keys == Units \X Dates

NoDate == [y |-> 0, m |-> 0, d |-> 0]

(* ---------------- Python / SQL helpers ---------------- *)

\* int(v) succeeds exactly for the numeric values
CanInt(v) == v >= 0

\* data.get(c, default)
DictGet(data, c, default) == IF data[c] = Absent THEN default ELSE data[c]

\* "x or 0"
OrZero(v) == IF v = Null THEN 0 ELSE v

RECURSIVE SetSum(_, _)
SetSum(S, f) ==
  IF S = {} THEN 0
  ELSE LET x == CHOOSE x \in S : TRUE IN f[x] + SetSum(S \ {x}, f)

\* "try: total += int(v) except: pass"
IntOrSkip(v) == IF CanInt(v) THEN v ELSE 0

\* what a column of the physical table holds after the statement stored v:
\* an INTEGER column in non-strict SQL mode turns a non-numeric string into 0
Stored(c, v) ==
  IF ColDef(c).data_type = "integer" /\ v = Txt THEN 0 ELSE v

\* column default of CREATE TABLE: INTEGER DEFAULT 0, TEXT (NULL)
ColumnDefault(c) == IF ColDef(c).data_type = "integer" THEN 0 ELSE Null

\* the statement is rejected in strict SQL mode when a non-numeric string
\* is bound to an INTEGER column
Rejected(data, strict) ==
  strict /\ \E c \in ColNames : ColDef(c).data_type = "integer" /\ data[c] = Txt

(* ---------------- strings ---------------- *)
\* strings that take part in prefix matching or hashing are sequences of
\* one-character strings

Digits == <<"0", "1", "2", "3", "4", "5", "6", "7", "8", "9">>

HexDigits == <<"0", "1", "2", "3", "4", "5", "6", "7", "8", "9", "a", "b", "c", "d", "e", "f">>

Alphabet ==
  <<"a", "b", "c", "d", "e", "f", "g", "h", "i", "j", "k", "l", "m", "n", "o",
    "p", "q", "r", "s", "t", "u", "v", "w", "x", "y", "z", "F", "N", "T",
    "0", "1", "2", "3", "4", "5", "6", "7", "8", "9", "_", ":", "[", "]", "{", "}", "-">>

Ord(ch) == CHOOSE i \in 1..Len(Alphabet) : Alphabet[i] = ch

\* str(n) for n >= 0
RECURSIVE Str(_)
Str(n) == IF n < 10 THEN <<Digits[n + 1]>> ELSE Str(n \div 10) \o <<Digits[(n % 10) + 1]>>

\* s.startswith(p)
StartsWith(s, p) == Len(s) >= Len(p) /\ SubSeq(s, 1, Len(p)) = p

(* ---------------- cache keys ---------------- *)

StatsPrefix == <<"s", "t", "a", "t", "s", "_", "t", "a", "b", "l", "e">>

TotalCountPrefix == <<"t", "o", "t", "a", "l", "_", "c", "o", "u", "n", "t", "_">>

DashboardKey == <<"d", "a", "s", "h", "b", "o", "a", "r", "d", "_", "s", "t", "a", "t", "s">>

GrafanaPrefix == <<"g", "r", "a", "f", "a", "n", "a">>

TotalCountKey(table_id) == TotalCountPrefix \o Str(table_id)

\* f"grafana:monthly:{table_id}:{year}:{columns}:{months}:{instansi_id}:{unit_kerja_id}:{use_display_name}:{exclude_meta}"
\* for the request year=all, columns=total, use_display_name=False, exclude_meta=True
GrafanaMonthlyKey(table_id) ==
  GrafanaPrefix \o <<":", "m", "o", "n", "t", "h", "l", "y", ":">> \o Str(table_id)
    \o <<":", "a", "l", "l", ":", "t", "o", "t", "a", "l",
         ":", "N", "o", "n", "e", ":", "N", "o", "n", "e", ":", "N", "o", "n", "e",
         ":", "F", "a", "l", "s", "e", ":", "T", "r", "u", "e">>

\* hashlib.md5(...).hexdigest(): a digest over the hexadecimal alphabet
\* (shortened to two digits: a positional checksum of the characters)
RECURSIVE CheckSum(_, _)
CheckSum(s, i) ==
  IF i > Len(s) THEN 0 ELSE (i * Ord(s[i]) + CheckSum(s, i + 1)) % 256

HexDigest(s) ==
  LET h == CheckSum(s, 1) IN <<HexDigits[(h \div 16) + 1], HexDigits[(h % 16) + 1]>>

\* CacheService._generate_key(prefix, table_id): the key the decorator stores
GenerateKey(prefix, table_id) ==
  HexDigest(prefix \o <<":", "[">> \o Str(table_id) \o <<"]", ":", "{", "}">>)

StatsKey(table_id) == GenerateKey(StatsPrefix, table_id)

(* ---------------- in-process cache backend ---------------- *)
\* the dict of InMemoryCacheBackend in insertion order; an entry is
\* [key, value, expired]; values are sequences of integers

CacheMaxSize == 5000

KeyIndex(c, key) ==
  IF \E i \in 1..Len(c) : c[i].key = key
  THEN CHOOSE i \in 1..Len(c) : c[i].key = key
  ELSE 0

RemoveAt(c, i) == SubSeq(c, 1, i - 1) \o SubSeq(c, i + 1, Len(c))

\* the entries that are not expired, in order
RECURSIVE DropExpired(_)
DropExpired(c) ==
  IF c = <<>> THEN <<>>
  ELSE IF Head(c).expired THEN DropExpired(Tail(c))
       ELSE <<Head(c)>> \o DropExpired(Tail(c))

\* InMemoryCacheBackend.keys(prefix + "*") followed by a delete of each key
RECURSIVE DropPrefix(_, _)
DropPrefix(c, prefix) ==
  IF c = <<>> THEN <<>>
  ELSE IF StartsWith(Head(c).key, prefix) THEN DropPrefix(Tail(c), prefix)
       ELSE <<Head(c)>> \o DropPrefix(Tail(c), prefix)

\* InMemoryCacheBackend.get: [hit, value, cache]; an expired entry is dropped
BackendGet(c, key) ==
  LET i == KeyIndex(c, key) IN
  IF i = 0 THEN [hit |-> FALSE, value |-> <<>>, cache |-> c]
  ELSE IF c[i].expired THEN [hit |-> FALSE, value |-> <<>>, cache |-> RemoveAt(c, i)]
  ELSE [hit |-> TRUE, value |-> c[i].value, cache |-> c]

\* InMemoryCacheBackend.set of a backend constructed with max_size
SetWithMaxSize(c, key, value, max_size) ==
  LET swept == IF Len(c) >= max_size THEN DropExpired(c) ELSE c
      room == IF Len(c) >= max_size /\ Len(swept) >= max_size
              THEN SubSeq(swept, (max_size \div 10) + 1, Len(swept))
              ELSE swept
      i == KeyIndex(room, key)
      e == [key |-> key, value |-> value, expired |-> FALSE]
  IN IF i = 0 THEN Append(room, e) ELSE [room EXCEPT ![i] = e]

\* InMemoryCacheBackend.set of the backend of the cache service, which is
\* constructed with the default max_size
BackendSet(c, key, value) == SetWithMaxSize(c, key, value, CacheMaxSize)

\* InMemoryCacheBackend.delete
BackendDelete(c, key) ==
  LET i == KeyIndex(c, key) IN IF i = 0 THEN c ELSE RemoveAt(c, i)

\* CacheService.invalidate_prefix: keys(prefix + "*") then delete each
InvalidatePrefix(c, prefix) == DropPrefix(c, prefix)

\* the invalidation block that ends every data mutation of TableService
InvalidateOnWrite(c, table_id) ==
  BackendDelete(BackendDelete(InvalidatePrefix(c, StatsPrefix), TotalCountKey(table_id)),
                DashboardKey)

(* ---------------- state ---------------- *)
VARIABLES
  rows,           \* the physical table: set of [id, uid, tgl, total, v]
  nextId,         \* the AUTO_INCREMENT counter of the physical table
  summaryExists,  \* the summary table exists in the catalog
  summary,        \* its cells: set of [month, year, uid, m]
  cache,          \* the dict of the in-process cache backend
  lastOp,         \* the last call and what it returned
  hist,           \* per key: the upsert_data calls made on it so far
  rebuilds,       \* the successful full rebuilds since the last raw write
  tableDefs,      \* table_definitions: set of [id, name, is_default]
  columnDefs,     \* column_definitions: set of [table_id, name, data_type, is_summable, order]
  physical,       \* the physical tables of the catalog: set of [name, cols]
  nextTableId,    \* the AUTO_INCREMENT counter of table_definitions
  regOp,          \* the last registry call and what it returned
  backendType,    \* CacheService._backend_type
  redisStore,     \* the keys of the networked cache: set of [key, value]
  svcOp,          \* the last CacheService call and what it returned
  svcEnv,         \* the environment CacheService was constructed in, and its choice
  san,            \* a name, and what _sanitize_name made of it
  writers,        \* per concurrent upsert_data call: its position and its session
  reader,         \* a concurrent get_dynamic_data call: its position and its count
  upload,         \* the last process_upload call and what it returned
  mem             \* an InMemoryCacheBackend of its own: max_size, dict, last call

dataVars == <<rows, nextId, summaryExists, summary, cache, lastOp, hist, rebuilds>>

regVars == <<tableDefs, columnDefs, physical, nextTableId, regOp>>

svcVars == <<backendType, redisStore, svcOp, svcEnv>>

jobVars == <<writers, reader, upload, mem>>

vars == <<dataVars, regVars, svcVars, san, jobVars>>

\* a raw write ends the run of rebuilds over one raw-table snapshot
RebuildsAfterWrite == rebuilds' = IF rows' = rows THEN rebuilds ELSE <<>>

MaxId == MaxRows + 1

AllAbsent == [c \in ColNames |-> Absent]

\* before: the rows, the cache entries and the summary table at the start
\* of a call; raised: a statement of the call raised
NoOp ==
  [op |-> "none", status |-> "none", action |-> "none", uid |-> 0, tgl |-> NoDate,
   id |-> 0, data |-> AllAbsent, old |-> AllAbsent, oldTotal |-> 0, result |-> <<>>,
   table_id |-> TableId, raised |-> FALSE,
   before |-> [rows |-> {}, cache |-> <<>>, summary |-> {}, exists |-> FALSE]]

NoHist ==
  [k |-> 0, sum |-> [c \in SumIntCols |-> 0], ints |-> [c \in SumIntCols |-> TRUE],
   ok |-> TRUE, pure |-> TRUE]

\* a key that another write operation has touched is no longer tracked
Impure == [NoHist EXCEPT !.pure = FALSE]

RowSum(v) == SetSum(SumIntCols, [c \in SumIntCols |-> OrZero(v[c])])

Matching(uid, tgl) == {r \in rows : r.uid = uid /\ r.tgl = tgl}

RowById(id) == {r \in rows : r.id = id}

\* the TableDefinition with the id, if any
TableById(table_id) == {t \in tableDefs : t.id = table_id}

(* ---------------- TableService: record writes ---------------- *)

\* the column values and total of the INSERT built by create_dynamic_data
\* and by the insert branch of upsert_data
InsertValues(data) ==
  [c \in ColNames |-> IF data[c] # Absent THEN Stored(c, data[c]) ELSE ColumnDefault(c)]

InsertTotal(data) ==
  LET present == {c \in ColNames : data[c] # Absent /\ ColDef(c).is_summable}
  IN SetSum(present, [c \in present |-> IntOrSkip(data[c])])

\* fault variant: the merge overwrites the stored value instead of adding to it
MergeValueOverwrite(c, old_val, data) ==
  IF IsSummableInt(c)
  THEN IF CanInt(DictGet(data, c, 0)) /\ data[c] # Absent
       THEN DictGet(data, c, 0)
       ELSE OrZero(old_val)
  ELSE DictGet(data, c, Null)

\* fault variant: an unparseable incoming value resets the column to 0
MergeValueReset(c, old_val, data) ==
  IF IsSummableInt(c)
  THEN IF CanInt(DictGet(data, c, 0))
       THEN OrZero(old_val) + DictGet(data, c, 0)
       ELSE 0
  ELSE DictGet(data, c, Null)

\* the merged column values of the update branch of upsert_data
MergeValue(c, old_val, data) ==
  IF IsSummableInt(c)
  THEN IF CanInt(DictGet(data, c, 0))
       THEN OrZero(old_val) + DictGet(data, c, 0)
       ELSE OrZero(old_val)
  ELSE DictGet(data, c, Null)

MergeValues(old, data) == [c \in ColNames |-> MergeValue(c, old[c], data)]

MergeTotal(merged) == SetSum(SumIntCols, [c \in SumIntCols |-> merged[c]])

\* the values a statement binds to columns: Absent where it binds none
UpdateBinds(data) ==
  [c \in ColNames |-> IF data[c] = Absent \/ data[c] = Null THEN Absent ELSE data[c]]

\* update_dynamic_data: the total written with the row
UpdateTotal(current, data) ==
  SetSum(SumIntCols,
         [c \in SumIntCols |-> IntOrSkip(OrZero(DictGet(data, c, current[c])))])

UpdateValues(current, data) ==
  [c \in ColNames |-> IF UpdateBinds(data)[c] = Absent THEN current[c]
                      ELSE Stored(c, data[c])]

Fits(v) == \A c \in ColNames : v[c] <= MaxStored

HistAfterUpsert(h, data, action) ==
  IF ~h.pure THEN h
  ELSE [k |-> h.k + 1,
        sum |-> [c \in SumIntCols |-> h.sum[c] + IntOrSkip(data[c])],
        ints |-> [c \in SumIntCols |-> h.ints[c] /\ CanInt(data[c])],
        ok |-> h.ok /\ action = (IF h.k = 0 THEN "inserted" ELSE "updated"),
        pure |-> TRUE]

Before == [rows |-> rows, cache |-> cache, summary |-> summary, exists |-> summaryExists]

ErrorOp(op, uid, tgl, id, data) ==
  [NoOp EXCEPT !.op = op, !.status = "error", !.uid = uid, !.tgl = tgl,
               !.id = id, !.data = data, !.before = Before]

\* TableService.create_dynamic_data
CreateDynamicData(uid, tgl, data, strict) ==
  /\ Cardinality(rows) < MaxRows
  /\ nextId <= MaxId
  /\ IF Rejected(data, strict)
     THEN /\ lastOp' = ErrorOp("create_dynamic_data", uid, tgl, 0, data)
          /\ UNCHANGED <<rows, nextId, cache, hist>>
     ELSE /\ rows' = rows \cup {[id |-> nextId, uid |-> uid, tgl |-> tgl,
                                 total |-> InsertTotal(data), v |-> InsertValues(data)]}
          /\ nextId' = nextId + 1
          /\ cache' = InvalidateOnWrite(cache, TableId)
          /\ hist' = [hist EXCEPT ![<<uid, tgl>>] = Impure]
          /\ lastOp' = [NoOp EXCEPT !.op = "create_dynamic_data", !.status = "success",
                                    !.uid = uid, !.tgl = tgl, !.id = nextId, !.data = data]
  /\ RebuildsAfterWrite
  /\ UNCHANGED <<summaryExists, summary>>
  /\ UNCHANGED <<regVars, svcVars, san, jobVars>>

\* TableService.upsert_data with its own session: the update branch
UpsertUpdate(existing, uid, tgl, data, strict) ==
  LET merged == MergeValues(existing.v, data) IN
  /\ Fits(merged)
  /\ IF Rejected(merged, strict)
     THEN /\ lastOp' = ErrorOp("upsert_data", uid, tgl, existing.id, data)
          /\ UNCHANGED <<rows, cache, hist>>
     ELSE /\ rows' = (rows \ {existing}) \cup
                       {[existing EXCEPT !.v = [c \in ColNames |-> Stored(c, merged[c])],
                                         !.total = MergeTotal(merged)]}
          /\ cache' = InvalidateOnWrite(cache, TableId)
          /\ hist' = [hist EXCEPT ![<<uid, tgl>>] = HistAfterUpsert(@, data, "updated")]
          /\ lastOp' = [NoOp EXCEPT !.op = "upsert_data", !.status = "success",
                                    !.action = "updated", !.uid = uid, !.tgl = tgl,
                                    !.id = existing.id, !.data = data,
                                    !.old = existing.v, !.oldTotal = existing.total]
  /\ UNCHANGED nextId

\* fault variant: the cache is invalidated before the INSERT is executed
UpsertInsertInvalidateFirst(uid, tgl, data, strict) ==
  /\ Cardinality(rows) < MaxRows
  /\ nextId <= MaxId
  /\ cache' = InvalidateOnWrite(cache, TableId)
  /\ IF Rejected(data, strict)
     THEN /\ lastOp' = ErrorOp("upsert_data", uid, tgl, 0, data)
          /\ UNCHANGED <<rows, nextId, hist>>
     ELSE /\ rows' = rows \cup {[id |-> nextId, uid |-> uid, tgl |-> tgl,
                                 total |-> InsertTotal(data), v |-> InsertValues(data)]}
          /\ nextId' = nextId + 1
          /\ hist' = [hist EXCEPT ![<<uid, tgl>>] = HistAfterUpsert(@, data, "inserted")]
          /\ lastOp' = [NoOp EXCEPT !.op = "upsert_data", !.status = "success",
                                    !.action = "inserted", !.uid = uid, !.tgl = tgl,
                                    !.id = nextId, !.data = data]

\* TableService.upsert_data with its own session: the insert branch
UpsertInsert(uid, tgl, data, strict) ==
  /\ Cardinality(rows) < MaxRows
  /\ nextId <= MaxId
  /\ IF Rejected(data, strict)
     THEN /\ lastOp' = ErrorOp("upsert_data", uid, tgl, 0, data)
          /\ UNCHANGED <<rows, nextId, cache, hist>>
     ELSE /\ rows' = rows \cup {[id |-> nextId, uid |-> uid, tgl |-> tgl,
                                 total |-> InsertTotal(data), v |-> InsertValues(data)]}
          /\ nextId' = nextId + 1
          /\ cache' = InvalidateOnWrite(cache, TableId)
          /\ hist' = [hist EXCEPT ![<<uid, tgl>>] = HistAfterUpsert(@, data, "inserted")]
          /\ lastOp' = [NoOp EXCEPT !.op = "upsert_data", !.status = "success",
                                    !.action = "inserted", !.uid = uid, !.tgl = tgl,
                                    !.id = nextId, !.data = data]

\* a table_id that is not in the registry
UnknownTableId == 2

\* TableService.upsert_data: the schema lookup, SELECT ... .first(), then
\* one of the branches; fail: a statement of the call raises for a reason
\* outside the program (lost connection, lock timeout)
UpsertData(table_id, uid, tgl, data, strict, fail) ==
  /\ hist[<<uid, tgl>>].k < MaxCalls
  /\ table_id = TableId \/ TableById(table_id) = {}
  /\ IF TableById(table_id) = {}
     THEN \* "Tabel tidak ditemukan"
          /\ lastOp' = [ErrorOp("upsert_data", uid, tgl, 0, data) EXCEPT !.table_id = table_id]
          /\ UNCHANGED <<rows, nextId, cache, hist>>
     ELSE IF fail
     THEN \* except branch: rollback, error result
          /\ lastOp' = [ErrorOp("upsert_data", uid, tgl, 0, data) EXCEPT !.raised = TRUE]
          /\ UNCHANGED <<rows, nextId, cache, hist>>
     ELSE IF Matching(uid, tgl) # {}
     THEN \E existing \in Matching(uid, tgl) : UpsertUpdate(existing, uid, tgl, data, strict)
     ELSE UpsertInsert(uid, tgl, data, strict)
  /\ RebuildsAfterWrite
  /\ UNCHANGED <<summaryExists, summary>>
  /\ UNCHANGED <<regVars, svcVars, san, jobVars>>

\* TableService.update_dynamic_data
UpdateDynamicData(row_id, data, strict) ==
  /\ IF RowById(row_id) = {}
     THEN /\ lastOp' = ErrorOp("update_dynamic_data", 0, NoDate, row_id, data)
          /\ UNCHANGED <<rows, cache, hist>>
     ELSE LET r == CHOOSE r \in RowById(row_id) : TRUE IN
          IF Rejected(UpdateBinds(data), strict)
          THEN /\ lastOp' = ErrorOp("update_dynamic_data", r.uid, r.tgl, row_id, data)
               /\ UNCHANGED <<rows, cache, hist>>
          ELSE /\ rows' = (rows \ {r}) \cup
                            {[r EXCEPT !.v = UpdateValues(r.v, data),
                                       !.total = UpdateTotal(r.v, data)]}
               /\ cache' = InvalidateOnWrite(cache, TableId)
               /\ hist' = [hist EXCEPT ![<<r.uid, r.tgl>>] = Impure]
               /\ lastOp' = [NoOp EXCEPT !.op = "update_dynamic_data", !.status = "success",
                                         !.uid = r.uid, !.tgl = r.tgl, !.id = row_id,
                                         !.data = data, !.old = r.v, !.oldTotal = r.total]
  /\ RebuildsAfterWrite
  /\ UNCHANGED <<nextId, summaryExists, summary>>
  /\ UNCHANGED <<regVars, svcVars, san, jobVars>>

\* TableService.delete_dynamic_data
DeleteDynamicData(row_id) ==
  /\ rows' = rows \ RowById(row_id)
  /\ cache' = InvalidateOnWrite(cache, TableId)
  /\ hist' = [k \in Keys |-> IF \E r \in RowById(row_id) : <<r.uid, r.tgl>> = k
                             THEN Impure ELSE hist[k]]
  /\ lastOp' = [NoOp EXCEPT !.op = "delete_dynamic_data", !.status = "success", !.id = row_id]
  /\ RebuildsAfterWrite
  /\ UNCHANGED <<nextId, summaryExists, summary>>
  /\ UNCHANGED <<regVars, svcVars, san, jobVars>>

(* ---------------- SchemaInspector / summary table ---------------- *)

\* the catalog columns of the physical table, as its CREATE TABLE declares them
PhysicalColumns ==
  << [name |-> "id", type |-> "bigint"],
     [name |-> "unit_kerja_id", type |-> "integer"],
     [name |-> "tanggal", type |-> "date"],
     [name |-> "total", type |-> "integer"],
     [name |-> "created_at", type |-> "timestamp"],
     [name |-> "updated_at", type |-> "timestamp"] >>
  \o [i \in 1..Len(Columns) |->
        [name |-> Columns[i].name,
         type |-> IF Columns[i].data_type = "integer" THEN "integer" ELSE "text"]]

\* SchemaInspector.get_table_columns: 'int' / 'date' / 'time' in the type name
ClassifyType(type) ==
  IF type \in {"bigint", "integer"} THEN "integer"
  ELSE IF type \in {"date", "timestamp"} THEN "date"
  ELSE "text"

\* metric_cols of create_summary_table and update_summary_row
MetricCols ==
  {PhysicalColumns[i].name : i \in
     {j \in 1..Len(PhysicalColumns) :
        /\ ClassifyType(PhysicalColumns[j].type) = "integer"
        /\ PhysicalColumns[j].name \notin {"id", "unit_kerja_id", "instansi_id"}}}

RowField(r, c) == IF c = "total" THEN r.total ELSE r.v[c]

\* SUM(col) over a set of rows: NULL values are skipped, all NULL gives NULL
SqlSum(S, c) ==
  IF \A r \in S : RowField(r, c) = Null THEN Null
  ELSE LET nn == {r \in S : RowField(r, c) # Null}
       IN SetSum(nn, [r \in nn |-> RowField(r, c)])

Coalesce(v, default) == IF v = Null THEN default ELSE v

Pad(digits, width) ==
  [i \in 1..(width - Len(digits)) |-> "0"] \o digits

\* DATE_FORMAT(tanggal, '%Y-%m')
SqlMonthStr(date) == Pad(Str(date.y), 4) \o <<"-">> \o Pad(Str(date.m), 2)

\* f"{y}-{m:02d}"
PyMonthStr(y, m) == Str(y) \o <<"-">> \o Pad(Str(m), 2)

LastOf(q) == IF q = <<>> THEN <<>> ELSE <<q[Len(q)]>>

SummaryFailures == {"none", "drop", "create", "populate"}

SummaryOp(status, count) ==
  [NoOp EXCEPT !.op = "create_summary_table", !.status = status, !.result = count,
               !.before = Before]

\* fault variant: the sums of a cell run over the rows of every unit
GroupBySummaryAllUnits(R) ==
  { [month |-> SqlMonthStr(r.tgl), year |-> r.tgl.y, uid |-> r.uid,
     m |-> [c \in MetricCols |->
              SqlSum({q \in R : /\ SqlMonthStr(q.tgl) = SqlMonthStr(r.tgl)
                                /\ q.tgl.y = r.tgl.y}, c)]]
    : r \in {q \in R : q.tgl # NoDate} }

\* the groups of INSERT ... SELECT ... GROUP BY month, year, t.unit_kerja_id
GroupBySummary(R) ==
  { [month |-> SqlMonthStr(r.tgl), year |-> r.tgl.y, uid |-> r.uid,
     m |-> [c \in MetricCols |->
              SqlSum({q \in R : /\ SqlMonthStr(q.tgl) = SqlMonthStr(r.tgl)
                                /\ q.tgl.y = r.tgl.y
                                /\ q.uid = r.uid}, c)]]
    : r \in {q \in R : q.tgl # NoDate} }

\* fault variant: an existing summary table is kept and the fresh sums are
\* added onto its cells
CreateSummaryTableAppend(fail) ==
  LET fresh == GroupBySummary(rows)
      Old(c) == {o \in summary : o.month = c.month /\ o.uid = c.uid}
      added == {[c EXCEPT !.m = [x \in MetricCols |->
                   OrZero(c.m[x]) + SetSum(Old(c), [o \in Old(c) |-> OrZero(o.m[x])])]]
                : c \in fresh}
  IN
  /\ IF fail # "none"
     THEN /\ UNCHANGED <<summaryExists, summary>>
          /\ lastOp' = SummaryOp("error", <<>>)
     ELSE /\ summaryExists' = TRUE
          /\ summary' = IF summaryExists THEN added ELSE fresh
          /\ lastOp' = SummaryOp("success", <<Cardinality(fresh)>>)
  /\ rebuilds' = IF lastOp'.status = "success"
                 THEN LastOf(rebuilds) \o <<[cells |-> summary', count |-> lastOp'.result]>>
                 ELSE rebuilds
  /\ UNCHANGED <<rows, nextId, cache, hist>>
  /\ UNCHANGED <<regVars, svcVars, san, jobVars>>

\* GenericSummaryService.create_summary_table; fail names the statement
\* that raises, if any
CreateSummaryTable(fail) ==
  LET afterDrop == IF fail = "drop" THEN summaryExists ELSE FALSE IN
  /\ IF afterDrop \/ fail = "create"
     THEN \* CREATE TABLE raised: "Failed to create table"
          /\ summaryExists' = afterDrop
          /\ summary' = IF afterDrop THEN summary ELSE {}
          /\ lastOp' = SummaryOp("error", <<>>)
     ELSE IF fail = "populate"
     THEN \* INSERT raised: rollback, the new table stays and is empty
          /\ summaryExists' = TRUE
          /\ summary' = {}
          /\ lastOp' = SummaryOp("error", <<>>)
     ELSE /\ summaryExists' = TRUE
          /\ summary' = GroupBySummary(rows)
          /\ lastOp' = SummaryOp("success", <<Cardinality(GroupBySummary(rows))>>)
  /\ rebuilds' = IF lastOp'.status = "success"
                 THEN LastOf(rebuilds) \o <<[cells |-> summary', count |-> lastOp'.result]>>
                 ELSE rebuilds
  /\ UNCHANGED <<rows, nextId, cache, hist>>
  /\ UNCHANGED <<regVars, svcVars, san, jobVars>>

\* GenericSummaryService.check_summary_exists
CheckSummaryExists == summaryExists

\* the raw rows of WHERE unit_kerja_id = :uid AND YEAR(tanggal) = :y AND MONTH(tanggal) = :m
CellRows(uid, y, m) == {r \in rows : r.uid = uid /\ r.tgl.y = y /\ r.tgl.m = m}

\* fault variant: the WHERE clause of the cell leaves out the unit
CellsAtAnyUnit(S, uid, y, m_str) == {c \in S : c.year = y /\ c.month = m_str}

\* the cell of WHERE unit_kerja_id = :uid AND year = :y AND month = :m_str
CellsAt(S, uid, y, m_str) == {c \in S : c.uid = uid /\ c.year = y /\ c.month = m_str}

\* how update_summary_row can fail: the SELECT of the sums, the DELETE /
\* UPDATE / INSERT of the cell or the commit raises
SummaryRowFailures == {"none", "select", "write", "commit"}

\* fault variant: the sums run over the rows of the whole year
SummarySumsWholeYear(uid, y, m) ==
  [c \in MetricCols |->
     Coalesce(SqlSum({r \in rows : r.uid = uid /\ r.tgl.y = y}, c), 0)]

\* SELECT COALESCE(SUM(t.`col`), 0) ... for every metric column
SummarySums(uid, y, m) ==
  [c \in MetricCols |-> Coalesce(SqlSum(CellRows(uid, y, m), c), 0)]

\* the path update_summary_row takes: "skip" is one of its early returns
\* (no summary table, schema not registered, no metric column), "failed" an
\* exception that its except branch logs
SummaryBranch(table_id, uid, y, m, fail) ==
  IF TableById(table_id) = {} THEN "skip"
  ELSE IF table_id # TableId THEN "skip"   \* no summary table was built for it
  ELSE IF ~CheckSummaryExists THEN "skip"
  ELSE IF MetricCols = {} THEN "skip"
  ELSE IF fail # "none" THEN "failed"
  ELSE IF CellRows(uid, y, m) = {} THEN "delete"
  ELSE IF CellsAt(summary, uid, y, PyMonthStr(y, m)) # {} THEN "update"
  ELSE "insert"

SummaryRowOp(table_id, uid, date_val, branch, found) ==
  [NoOp EXCEPT !.op = "update_summary_row",
               !.status = (IF branch = "failed" THEN "error" ELSE "success"),
               !.action = branch, !.uid = uid, !.tgl = date_val,
               !.result = <<Cardinality(found)>>, !.table_id = table_id,
               !.before = Before]

\* fault variant: an emptied month keeps its cell, with the zero sums written
UpdateSummaryRowZero(table_id, uid, date_val, fail) ==
  LET y == date_val.y
      m == date_val.m
      m_str == PyMonthStr(y, m)
      res == SummarySums(uid, y, m)
      cell == [month |-> m_str, year |-> y, uid |-> uid, m |-> res]
      found == CellsAt(summary, uid, y, m_str)
      path == SummaryBranch(table_id, uid, y, m, fail)
      branch == IF path = "delete" THEN (IF found # {} THEN "update" ELSE "insert") ELSE path
  IN
  /\ summary' = CASE branch \in {"skip", "failed"} -> summary
                  [] branch = "update" ->
                       (summary \ found) \cup {[c EXCEPT !.m = res] : c \in found}
                  [] branch = "insert" -> summary \cup {cell}
  /\ lastOp' = SummaryRowOp(table_id, uid, date_val, branch, found)
  /\ UNCHANGED <<rows, nextId, summaryExists, cache, hist, rebuilds>>
  /\ UNCHANGED <<regVars, svcVars, san, jobVars>>

\* GenericSummaryService.update_summary_row
UpdateSummaryRow(table_id, uid, date_val, fail) ==
  LET y == date_val.y
      m == date_val.m
      m_str == PyMonthStr(y, m)
      res == SummarySums(uid, y, m)
      cell == [month |-> m_str, year |-> y, uid |-> uid, m |-> res]
      found == CellsAt(summary, uid, y, m_str)
      branch == SummaryBranch(table_id, uid, y, m, fail)
  IN
  /\ summary' = CASE branch \in {"skip", "failed"} -> summary
                  [] branch = "delete" -> summary \ found
                  [] branch = "update" ->
                       (summary \ found) \cup {[c EXCEPT !.m = res] : c \in found}
                  [] branch = "insert" -> summary \cup {cell}
  /\ lastOp' = SummaryRowOp(table_id, uid, date_val, branch, found)
  /\ UNCHANGED <<rows, nextId, summaryExists, cache, hist, rebuilds>>
  /\ UNCHANGED <<regVars, svcVars, san, jobVars>>

(* ---------------- cached read paths ---------------- *)

SummableCols == SelectSeq(Columns, LAMBDA d : d.is_summable)

\* the aggregate of TableService.get_statistics: grand_total, then one sum
\* per summable column ("SUM(...) or 0")
Statistics(R) ==
  <<Coalesce(SqlSum(R, "total"), 0)>>
    \o [i \in 1..Len(SummableCols) |-> Coalesce(SqlSum(R, SummableCols[i].name), 0)]

ReadOp(op, hit, value) ==
  [NoOp EXCEPT !.op = op, !.status = "success",
               !.action = (IF hit THEN "hit" ELSE "miss"), !.result = value]

\* TableService.get_statistics behind @cached(prefix="stats_table")
GetStatistics ==
  LET got == BackendGet(cache, StatsKey(TableId)) IN
  /\ IF got.hit
     THEN /\ cache' = got.cache
          /\ lastOp' = ReadOp("get_statistics", TRUE, got.value)
     ELSE /\ cache' = BackendSet(got.cache, StatsKey(TableId), Statistics(rows))
          /\ lastOp' = ReadOp("get_statistics", FALSE, Statistics(rows))
  /\ UNCHANGED <<rows, nextId, summaryExists, summary, hist, rebuilds>>
  /\ UNCHANGED <<regVars, svcVars, san, jobVars>>

\* TableService.get_dynamic_data without filters: the cached row count
GetDynamicData ==
  LET got == BackendGet(cache, TotalCountKey(TableId)) IN
  /\ IF got.hit
     THEN /\ cache' = got.cache
          /\ lastOp' = ReadOp("get_dynamic_data", TRUE, got.value)
     ELSE /\ cache' = BackendSet(got.cache, TotalCountKey(TableId), <<Cardinality(rows)>>)
          /\ lastOp' = ReadOp("get_dynamic_data", FALSE, <<Cardinality(rows)>>)
  /\ UNCHANGED <<rows, nextId, summaryExists, summary, hist, rebuilds>>
  /\ UNCHANGED <<regVars, svcVars, san, jobVars>>

\* s < t in the order of ORDER BY on strings
RECURSIVE LexLess(_, _)
LexLess(s, t) ==
  IF t = <<>> THEN FALSE
  ELSE IF s = <<>> THEN TRUE
  ELSE IF Head(s) = Head(t) THEN LexLess(Tail(s), Tail(t))
  ELSE Ord(Head(s)) < Ord(Head(t))

RECURSIVE SortMonths(_)
SortMonths(M) ==
  IF M = {} THEN <<>>
  ELSE LET lo == CHOOSE x \in M : \A z \in M \ {x} : LexLess(x, z)
       IN <<lo>> \o SortMonths(M \ {lo})

\* the rows of get_grafana_monthly(year=all, columns=total, exclude_meta):
\* one COALESCE(SUM(total), 0) per month, ordered by month, read from the
\* summary table when it exists and from the raw table otherwise
MonthlyTotals ==
  IF CheckSummaryExists
  THEN LET months == SortMonths({c.month : c \in summary})
       IN [i \in 1..Len(months) |->
             LET S == {c \in summary : c.month = months[i]}
             IN SetSum(S, [c \in S |-> OrZero(c.m["total"])])]
  ELSE LET months == SortMonths({SqlMonthStr(r.tgl) : r \in rows})
       IN [i \in 1..Len(months) |->
             Coalesce(SqlSum({r \in rows : SqlMonthStr(r.tgl) = months[i]}, "total"), 0)]

\* stats_routes.get_grafana_monthly: "if cached_data" misses on an empty list
GetGrafanaMonthly ==
  LET got == BackendGet(cache, GrafanaMonthlyKey(TableId)) IN
  /\ IF got.hit /\ got.value # <<>>
     THEN /\ cache' = got.cache
          /\ lastOp' = ReadOp("get_grafana_monthly", TRUE, got.value)
     ELSE /\ cache' = BackendSet(got.cache, GrafanaMonthlyKey(TableId), MonthlyTotals)
          /\ lastOp' = ReadOp("get_grafana_monthly", FALSE, MonthlyTotals)
  /\ UNCHANGED <<rows, nextId, summaryExists, summary, hist, rebuilds>>
  /\ UNCHANGED <<regVars, svcVars, san, jobVars>>

\* time passes beyond the expires_at of an entry
Expire(i) ==
  /\ i \in 1..Len(cache)
  /\ ~cache[i].expired
  /\ cache' = [cache EXCEPT ![i].expired = TRUE]
  /\ UNCHANGED <<rows, nextId, summaryExists, summary, lastOp, hist, rebuilds>>
  /\ UNCHANGED <<regVars, svcVars, san, jobVars>>

(* ---------------- TableService: name sanitizer ---------------- *)
\* a name is a sequence of characters; a character outside ASCII is written
\* by its code point

LowerLetters ==
  <<"a", "b", "c", "d", "e", "f", "g", "h", "i", "j", "k", "l", "m",
    "n", "o", "p", "q", "r", "s", "t", "u", "v", "w", "x", "y", "z">>

UpperLetters ==
  <<"A", "B", "C", "D", "E", "F", "G", "H", "I", "J", "K", "L", "M",
    "N", "O", "P", "Q", "R", "S", "T", "U", "V", "W", "X", "Y", "Z">>

\* characters outside ASCII for which str.isalnum() is true:
\* U+00E9 (e acute), U+00C9 (E acute), U+0130 (I with dot above),
\* U+0663 (Arabic-Indic digit three)
UnicodeAlnum == {"U+00E9", "U+00C9", "U+0130", "U+0663"}

Range(q) == {q[i] : i \in 1..Len(q)}

\* c.isalnum()
IsAlnum(ch) ==
  ch \in Range(LowerLetters) \cup Range(UpperLetters) \cup Range(Digits) \cup UnicodeAlnum

\* str.lower() of one character; U+0130 lowers to "i" followed by the
\* combining dot above U+0307
CharLower(ch) ==
  IF ch \in Range(UpperLetters)
  THEN <<LowerLetters[CHOOSE i \in 1..Len(UpperLetters) : UpperLetters[i] = ch]>>
  ELSE IF ch = "U+00C9" THEN <<"U+00E9">>
  ELSE IF ch = "U+0130" THEN <<"i", "U+0307">>
  ELSE <<ch>>

\* "".join(c for c in name if c.isalnum() or c == '_')
RECURSIVE KeepAlnum(_)
KeepAlnum(name) ==
  IF name = <<>> THEN <<>>
  ELSE IF IsAlnum(Head(name)) \/ Head(name) = "_"
       THEN <<Head(name)>> \o KeepAlnum(Tail(name))
       ELSE KeepAlnum(Tail(name))

\* str.lower()
RECURSIVE Lower(_)
Lower(s) == IF s = <<>> THEN <<>> ELSE CharLower(Head(s)) \o Lower(Tail(s))

\* TableService._sanitize_name
SanitizeName(name) == Lower(KeepAlnum(name))

\* a name before the call, after one call and after a second call on the result
Sanitized(stage, input, once, twice) ==
  [stage |-> stage, input |-> input, once |-> once, twice |-> twice]

NoSanitized == Sanitized(0, <<>>, <<>>, <<>>)

\* _sanitize_name applied to the name
SanitizeOnce ==
  /\ san.stage = 0
  /\ san' = Sanitized(1, san.input, SanitizeName(san.input), <<>>)
  /\ UNCHANGED <<dataVars, regVars, svcVars, jobVars>>

\* _sanitize_name applied to its own result
SanitizeTwice ==
  /\ san.stage = 1
  /\ san' = Sanitized(2, san.input, san.once, SanitizeName(san.once))
  /\ UNCHANGED <<dataVars, regVars, svcVars, jobVars>>

(* ---------------- TableService: schema registry ---------------- *)

MaxTables == 3

\* the reserved columns of the CREATE TABLE statement of create_table
ReservedColumns ==
  << [name |-> <<"i", "d">>, type |-> "bigint"],
     [name |-> <<"u", "n", "i", "t", "_", "k", "e", "r", "j", "a", "_", "i", "d">>,
      type |-> "integer"],
     [name |-> <<"t", "a", "n", "g", "g", "a", "l">>, type |-> "date"],
     [name |-> <<"t", "o", "t", "a", "l">>, type |-> "integer"],
     [name |-> <<"c", "r", "e", "a", "t", "e", "d", "_", "a", "t">>, type |-> "timestamp"],
     [name |-> <<"u", "p", "d", "a", "t", "e", "d", "_", "a", "t">>, type |-> "timestamp"] >>

ReservedNames == {ReservedColumns[i].name : i \in 1..Len(ReservedColumns)}

\* the column list of the DDL text: reserved columns, then one per column
\* definition, "INTEGER DEFAULT 0" for integer and "TEXT" otherwise
DdlColumns(columns) ==
  ReservedColumns \o
    [i \in 1..Len(columns) |->
       [name |-> SanitizeName(columns[i].name),
        type |-> IF columns[i].data_type = "integer" THEN "integer" ELSE "text"]]

\* the server refuses the text of the statement: a column without a name
DdlSyntaxError(columns) == \E i \in 1..Len(columns) : SanitizeName(columns[i].name) = <<>>

\* the statement raises while it executes: the table exists already or a
\* column name occurs twice
DdlExecError(safe_name, columns) ==
  LET cols == DdlColumns(columns) IN
  \/ \E p \in physical : p.name = safe_name
  \/ \E i, j \in 1..Len(cols) : i # j /\ cols[i].name = cols[j].name

\* how a DDL statement can fail for reasons outside the program:
\* "rejected" before it starts (connection lost, syntax), "failed" while it
\* executes (privileges, storage); MySQL commits the open transaction when
\* a DDL statement starts to execute
DdlFailures == {"none", "rejected", "failed"}

Snapshot == [t |-> tableDefs, c |-> columnDefs, p |-> physical]

\* the arguments of a registry call
Args(name, columns, is_default) == [name |-> name, columns |-> columns, is_default |-> is_default]

NoRegOp ==
  [op |-> "none", status |-> "none", id |-> 0, name |-> <<>>, ddl |-> FALSE,
   fail |-> "none", args |-> Args(<<>>, <<>>, Null),
   before |-> [t |-> {}, c |-> {}, p |-> {}], idents |-> {}]

\* the record of a call: its result, the table it concerned, whether a DDL
\* statement was sent, the registry and catalog before the call, and the
\* identifiers in the text of the statements it sent
RegOp(op, status, id, name, ddl, fail, args) ==
  [op |-> op, status |-> status, id |-> id, name |-> name, ddl |-> ddl,
   fail |-> fail, args |-> args, before |-> Snapshot, idents |-> {}]

\* an identifier in the text of a statement: raw is the name as the caller,
\* the registry or the catalog gave it, text what was interpolated
Ident(raw, text) == [raw |-> raw, text |-> text]

\* the identifiers of the CREATE TABLE text of create_table
CreateIdents(name, columns) ==
  {Ident(name, SanitizeName(name))}
    \cup {Ident(columns[i].name, SanitizeName(columns[i].name)) : i \in 1..Len(columns)}

\* the ColumnDefinition rows added for a schema
ColumnRows(table_id, columns) ==
  {[table_id |-> table_id, name |-> columns[i].name, data_type |-> columns[i].data_type,
    is_summable |-> columns[i].is_summable, order |-> i - 1] : i \in 1..Len(columns)}

\* TableService.create_table
CreateTable(name, columns, fail) ==
  LET safe_name == SanitizeName(name)
      row == [id |-> nextTableId, name |-> safe_name,
              is_default |-> (Cardinality(tableDefs) = 0)]
  IN
  /\ nextTableId <= MaxTables
  /\ IF safe_name = <<>> \/ \E t \in tableDefs : t.name = safe_name
     THEN \* invalid or duplicate name: returned before the INSERT
          /\ regOp' = RegOp("create_table", "error", 0, safe_name, FALSE, "none",
                        Args(name, columns, Null))
          /\ UNCHANGED <<tableDefs, columnDefs, physical, nextTableId>>
     ELSE IF DdlSyntaxError(columns) \/ fail = "rejected"
     THEN \* CREATE TABLE raised before it started: rollback undoes the INSERT
          /\ regOp' = [RegOp("create_table", "error", nextTableId, safe_name, TRUE, "rejected",
                              Args(name, columns, Null))
                          EXCEPT !.idents = CreateIdents(name, columns)]
          /\ nextTableId' = nextTableId + 1
          /\ UNCHANGED <<tableDefs, columnDefs, physical>>
     ELSE IF DdlExecError(safe_name, columns) \/ fail = "failed"
     THEN \* CREATE TABLE raised while executing: the flushed TableDefinition
          \* row is already committed, the pending columns are discarded
          /\ regOp' = [RegOp("create_table", "error", nextTableId, safe_name, TRUE, "failed",
                              Args(name, columns, Null))
                          EXCEPT !.idents = CreateIdents(name, columns)]
          /\ tableDefs' = tableDefs \cup {row}
          /\ nextTableId' = nextTableId + 1
          /\ UNCHANGED <<columnDefs, physical>>
     ELSE /\ regOp' = [RegOp("create_table", "success", nextTableId, safe_name, TRUE, "none",
                              Args(name, columns, Null))
                          EXCEPT !.idents = CreateIdents(name, columns)]
          /\ tableDefs' = tableDefs \cup {row}
          /\ columnDefs' = columnDefs \cup ColumnRows(nextTableId, columns)
          /\ physical' = physical \cup {[name |-> safe_name, cols |-> DdlColumns(columns)]}
          /\ nextTableId' = nextTableId + 1
  /\ UNCHANGED <<dataVars, svcVars, san, jobVars>>

\* SchemaInspector.get_table_columns for a table of the catalog
GetTableColumns(p) ==
  [i \in 1..Len(p.cols) |->
     [name |-> p.cols[i].name,
      data_type |-> ClassifyType(p.cols[i].type),
      is_summable |-> /\ ClassifyType(p.cols[i].type) = "integer"
                      /\ p.cols[i].name \notin {ReservedColumns[1].name, ReservedColumns[2].name}]]

\* TableService.register_existing_table; fail: the commit raises
RegisterExistingTable(name, columns, fail) ==
  LET row == [id |-> nextTableId, name |-> name,
              is_default |-> (Cardinality(tableDefs) = 0)]
  IN
  /\ nextTableId <= MaxTables
  /\ IF \E t \in tableDefs : t.name = name
     THEN /\ regOp' = RegOp("register_existing_table", "error", 0, name, FALSE, "none",
                        Args(name, columns, Null))
          /\ UNCHANGED <<tableDefs, columnDefs, nextTableId>>
     ELSE IF fail
     THEN /\ regOp' = RegOp("register_existing_table", "error", nextTableId, name, FALSE, "commit",
                        Args(name, columns, Null))
          /\ nextTableId' = nextTableId + 1
          /\ UNCHANGED <<tableDefs, columnDefs>>
     ELSE /\ regOp' = RegOp("register_existing_table", "success", nextTableId, name, FALSE, "none",
                        Args(name, columns, Null))
          /\ tableDefs' = tableDefs \cup {row}
          /\ columnDefs' = columnDefs \cup ColumnRows(nextTableId, columns)
          /\ nextTableId' = nextTableId + 1
  /\ UNCHANGED physical
  /\ UNCHANGED <<dataVars, svcVars, san, jobVars>>

\* fault variant: the flag is set without clearing it on the other schemas
UpdateTableKeepOthers(table_id, is_default) ==
  /\ IF TableById(table_id) = {}
     THEN /\ regOp' = RegOp("update_table", "error", table_id, <<>>, FALSE, "none",
                        Args(<<>>, <<>>, is_default))
          /\ UNCHANGED tableDefs
     ELSE LET table == CHOOSE t \in TableById(table_id) : TRUE IN
          /\ regOp' = RegOp("update_table", "success", table_id, table.name, FALSE, "none",
                        Args(<<>>, <<>>, is_default))
          /\ tableDefs' = IF is_default = 1 /\ ~table.is_default
                          THEN {IF t.id = table_id THEN [t EXCEPT !.is_default = TRUE]
                                ELSE t : t \in tableDefs}
                          ELSE tableDefs
  /\ UNCHANGED <<columnDefs, physical, nextTableId>>
  /\ UNCHANGED <<dataVars, svcVars, san, jobVars>>

\* TableService.update_table(table_id, is_default=...); is_default is Null
\* (not given), 0 (false) or 1 (true)
UpdateTable(table_id, is_default) ==
  /\ IF TableById(table_id) = {}
     THEN /\ regOp' = RegOp("update_table", "error", table_id, <<>>, FALSE, "none",
                        Args(<<>>, <<>>, is_default))
          /\ UNCHANGED tableDefs
     ELSE LET table == CHOOSE t \in TableById(table_id) : TRUE IN
          /\ regOp' = RegOp("update_table", "success", table_id, table.name, FALSE, "none",
                        Args(<<>>, <<>>, is_default))
          /\ tableDefs' = IF is_default = 1 /\ ~table.is_default
                          THEN {[t EXCEPT !.is_default = (t.id = table_id)] : t \in tableDefs}
                          ELSE tableDefs
  /\ UNCHANGED <<columnDefs, physical, nextTableId>>
  /\ UNCHANGED <<dataVars, svcVars, san, jobVars>>

\* how delete_table can fail: the DROP TABLE statement raises, or the
\* delete of the metadata raises after the table was dropped
DeleteFailures == {"none", "drop", "delete"}

\* fault variant: the ColumnDefinition rows of the schema are left behind
DeleteTableKeepColumns(table_id, fail) ==
  /\ IF TableById(table_id) = {}
     THEN /\ regOp' = RegOp("delete_table", "error", table_id, <<>>, FALSE, "none",
                        Args(<<>>, <<>>, Null))
          /\ UNCHANGED <<tableDefs, columnDefs, physical>>
     ELSE LET table == CHOOSE t \in TableById(table_id) : TRUE
              safe_name == SanitizeName(table.name)
          IN
          IF fail = "drop"
          THEN /\ regOp' = [RegOp("delete_table", "error", table_id, safe_name, TRUE, "drop",
                        Args(<<>>, <<>>, Null)) EXCEPT !.idents = {Ident(table.name, safe_name)}]
               /\ UNCHANGED <<tableDefs, columnDefs, physical>>
          ELSE /\ physical' = {p \in physical : p.name # safe_name}
               /\ IF fail = "delete"
                  THEN /\ regOp' = [RegOp("delete_table", "error", table_id, safe_name, TRUE, "delete",
                        Args(<<>>, <<>>, Null)) EXCEPT !.idents = {Ident(table.name, safe_name)}]
                       /\ UNCHANGED <<tableDefs, columnDefs>>
                  ELSE /\ regOp' = [RegOp("delete_table", "success", table_id, safe_name, TRUE, "none",
                        Args(<<>>, <<>>, Null)) EXCEPT !.idents = {Ident(table.name, safe_name)}]
                       /\ tableDefs' = tableDefs \ {table}
                       /\ UNCHANGED columnDefs
  /\ UNCHANGED nextTableId
  /\ UNCHANGED <<dataVars, svcVars, san, jobVars>>

\* TableService.delete_table
DeleteTable(table_id, fail) ==
  /\ IF TableById(table_id) = {}
     THEN /\ regOp' = RegOp("delete_table", "error", table_id, <<>>, FALSE, "none",
                        Args(<<>>, <<>>, Null))
          /\ UNCHANGED <<tableDefs, columnDefs, physical>>
     ELSE LET table == CHOOSE t \in TableById(table_id) : TRUE
              safe_name == SanitizeName(table.name)
          IN
          IF fail = "drop"
          THEN \* DROP TABLE IF EXISTS raised: nothing was changed
               /\ regOp' = [RegOp("delete_table", "error", table_id, safe_name, TRUE, "drop",
                        Args(<<>>, <<>>, Null)) EXCEPT !.idents = {Ident(table.name, safe_name)}]
               /\ UNCHANGED <<tableDefs, columnDefs, physical>>
          ELSE /\ physical' = {p \in physical : p.name # safe_name}
               /\ IF fail = "delete"
                  THEN \* the rollback does not bring the dropped table back
                       /\ regOp' = [RegOp("delete_table", "error", table_id, safe_name, TRUE, "delete",
                        Args(<<>>, <<>>, Null)) EXCEPT !.idents = {Ident(table.name, safe_name)}]
                       /\ UNCHANGED <<tableDefs, columnDefs>>
                  ELSE /\ regOp' = [RegOp("delete_table", "success", table_id, safe_name, TRUE, "none",
                        Args(<<>>, <<>>, Null)) EXCEPT !.idents = {Ident(table.name, safe_name)}]
                       /\ tableDefs' = tableDefs \ {table}
                       /\ columnDefs' = {c \in columnDefs : c.table_id # table_id}
  /\ UNCHANGED nextTableId
  /\ UNCHANGED <<dataVars, svcVars, san, jobVars>>

(* ---------------- SQL text of the summary and statistics paths ---------------- *)
\* the statements that the summary service and the statistics endpoints
\* build for a schema of the registry; the rows they read are those of the
\* record operations above and are not repeated here

\* table.name.replace('-', '_').replace(' ', '_')
ReplaceDashSpace(name) ==
  [i \in 1..Len(name) |-> IF name[i] \in {"-", " "} THEN "_" ELSE name[i]]

\* re.match(r'^[a-zA-Z0-9_]+$', name) of _sanitize_table_name
MatchesIdentifier(name) ==
  /\ name # <<>>
  /\ \A i \in 1..Len(name) :
       name[i] \in Range(LowerLetters) \cup Range(UpperLetters) \cup Range(Digits) \cup {"_"}

MonthlySummarySuffix ==
  <<"_", "m", "o", "n", "t", "h", "l", "y", "_", "s", "u", "m", "m", "a", "r", "y">>

DataArsip == <<"d", "a", "t", "a", "_", "a", "r", "s", "i", "p">>

\* GenericSummaryService.get_summary_table_name
SummaryTableName(table_id) ==
  IF \E t \in TableById(table_id) : t.name = DataArsip
  THEN DataArsip \o MonthlySummarySuffix
  ELSE <<"t", "a", "b", "l", "e", "_">> \o Str(table_id) \o MonthlySummarySuffix

\* metric_cols: the integer columns of the catalog entry that are not keys
MetricColsOf(p) ==
  SelectSeq(GetTableColumns(p),
            LAMBDA c : /\ c.data_type = "integer"
                       /\ c.name \notin {ReservedColumns[1].name, ReservedColumns[2].name,
                                         <<"i", "n", "s", "t", "a", "n", "s", "i", "_", "i", "d">>})

\* the columns of CREATE TABLE {summary_table_name}
SummaryColumns(metric_cols) ==
  << [name |-> <<"m", "o", "n", "t", "h">>, type |-> "varchar"],
     [name |-> <<"y", "e", "a", "r">>, type |-> "integer"],
     [name |-> ReservedColumns[2].name, type |-> "integer"] >>
  \o [i \in 1..Len(metric_cols) |-> [name |-> metric_cols[i].name, type |-> "bigint"]]

\* GenericSummaryService.create_summary_table for a schema of the registry:
\* its checks, and the DROP / CREATE / INSERT ... SELECT it sends; status
\* "raised" is the ValueError of _sanitize_table_name, which is not caught
CreateSummaryTableFor(table_id) ==
  LET call(status, name, ddl) ==
        RegOp("create_summary_table", status, table_id, name, ddl, "none",
              Args(<<>>, <<>>, Null))
  IN
  /\ IF TableById(table_id) = {}
     THEN /\ regOp' = call("error", <<>>, FALSE)
          /\ UNCHANGED physical
     ELSE LET table_def == CHOOSE t \in TableById(table_id) : TRUE
              summary_table_name == SummaryTableName(table_id)
              source == {q \in physical : q.name = table_def.name}
          IN
          IF ~MatchesIdentifier(table_def.name)
          THEN /\ regOp' = call("raised", table_def.name, FALSE)
               /\ UNCHANGED physical
          ELSE IF \/ source = {}
                  \/ \E q \in source :
                       \/ ReservedColumns[3].name \notin {q.cols[i].name : i \in 1..Len(q.cols)}
                       \/ ReservedColumns[2].name \notin {q.cols[i].name : i \in 1..Len(q.cols)}
                       \/ MetricColsOf(q) = <<>>
          THEN /\ regOp' = call("error", table_def.name, FALSE)
               /\ UNCHANGED physical
          ELSE LET metric_cols == MetricColsOf(CHOOSE q \in source : TRUE) IN
               /\ regOp' = [call("success", table_def.name, TRUE) EXCEPT
                              !.idents = {Ident(summary_table_name, summary_table_name),
                                          Ident(table_def.name, table_def.name)}
                                         \cup {Ident(metric_cols[i].name, metric_cols[i].name)
                                               : i \in 1..Len(metric_cols)}]
               /\ physical' = {q \in physical : q.name # summary_table_name}
                                \cup {[name |-> summary_table_name,
                                       cols |-> SummaryColumns(metric_cols)]}
  /\ UNCHANGED <<tableDefs, columnDefs, nextTableId>>
  /\ UNCHANGED <<dataVars, svcVars, san, jobVars>>

\* stats_routes.get_grafana_monthly for a schema of the registry, without a
\* columns filter: the SELECT it sends
GetGrafanaMonthlyFor(table_id) ==
  /\ IF TableById(table_id) = {}
     THEN regOp' = RegOp("get_grafana_monthly", "error", table_id, <<>>, FALSE, "none",
                         Args(<<>>, <<>>, Null))
     ELSE LET table == CHOOSE t \in TableById(table_id) : TRUE
              has_summary == \E q \in physical : q.name = SummaryTableName(table_id)
              safe_table_name == IF has_summary THEN SummaryTableName(table_id)
                                 ELSE ReplaceDashSpace(table.name)
              available_cols == {c.name : c \in {x \in columnDefs :
                                                   x.table_id = table_id /\ x.is_summable}}
                                  \cup {ReservedColumns[4].name}
          IN regOp' = [RegOp("get_grafana_monthly", "success", table_id, table.name, FALSE,
                             "none", Args(<<>>, <<>>, Null)) EXCEPT
                         !.idents = {Ident(IF has_summary THEN safe_table_name ELSE table.name,
                                           safe_table_name)}
                                    \cup {Ident(col, col) : col \in available_cols}]
  /\ UNCHANGED <<tableDefs, columnDefs, physical, nextTableId>>
  /\ UNCHANGED <<dataVars, svcVars, san, jobVars>>

\* TableService.get_statistics for a schema of the registry: the aggregate
\* SELECT it sends when the schema has a summable column
GetStatisticsFor(table_id) ==
  /\ IF TableById(table_id) = {}
     THEN regOp' = RegOp("get_statistics", "error", table_id, <<>>, FALSE, "none",
                         Args(<<>>, <<>>, Null))
     ELSE LET table == CHOOSE t \in TableById(table_id) : TRUE
              summable_cols == {c \in columnDefs : c.table_id = table_id /\ c.is_summable}
          IN regOp' = [RegOp("get_statistics", "success", table_id, table.name, FALSE,
                             "none", Args(<<>>, <<>>, Null)) EXCEPT
                         !.idents = IF summable_cols = {} THEN {}
                                    ELSE {Ident(table.name, SanitizeName(table.name))}
                                         \cup {Ident(c.name, SanitizeName(c.name))
                                               : c \in summable_cols}]
  /\ UNCHANGED <<tableDefs, columnDefs, physical, nextTableId>>
  /\ UNCHANGED <<dataVars, svcVars, san, jobVars>>

(* ---------------- networked cache backend ---------------- *)
\* the keys of the Redis database: set of [key, data]; fail says that the
\* client raises a transport error in the call

SplpPrefix == <<"s", "p", "l", "p", ":">>

\* RedisCacheBackend._key
RedisKey(key) == SplpPrefix \o key

\* k.replace(self._prefix, ""): every occurrence is removed
RECURSIVE RemoveAll(_, _)
RemoveAll(s, sub) ==
  IF s = <<>> THEN <<>>
  ELSE IF StartsWith(s, sub) THEN RemoveAll(SubSeq(s, Len(sub) + 1, Len(s)), sub)
  ELSE <<Head(s)>> \o RemoveAll(Tail(s), sub)

\* json.dumps(value, default=str) / json.loads(data) for a list of integers
JsonDumps(value) == [json |-> value]

JsonLoads(data) == data.json

RedisLookup(store, rkey) == {e \in store : e.key = rkey}

\* the result of a backend call: what it returned, whether it raised, and
\* the store after it
Returned(value, store) == [value |-> value, raised |-> FALSE, store |-> store]

Raised(store) == [value |-> <<>>, raised |-> TRUE, store |-> store]

\* fault variant: a transport error of the client is not caught
RedisGetUncaught(store, key, fail) ==
  IF fail THEN Raised(store)
  ELSE LET found == RedisLookup(store, RedisKey(key)) IN
       IF found = {} THEN Returned(<<>>, store)
       ELSE Returned(<<JsonLoads((CHOOSE e \in found : TRUE).data)>>, store)

\* RedisCacheBackend.get: <<>> is None, <<v>> the cached value
RedisGet(store, key, fail) ==
  IF fail THEN Returned(<<>>, store)
  ELSE LET found == RedisLookup(store, RedisKey(key)) IN
       IF found = {} THEN Returned(<<>>, store)
       ELSE Returned(<<JsonLoads((CHOOSE e \in found : TRUE).data)>>, store)

\* RedisCacheBackend.set
RedisSet(store, key, value, fail) ==
  IF fail THEN Returned(<<>>, store)
  ELSE Returned(<<>>, (store \ RedisLookup(store, RedisKey(key)))
                        \cup {[key |-> RedisKey(key), data |-> JsonDumps(value)]})

\* RedisCacheBackend.delete
RedisDelete(store, key, fail) ==
  IF fail THEN Returned(<<FALSE>>, store)
  ELSE Returned(<<RedisLookup(store, RedisKey(key)) # {}>>,
                store \ RedisLookup(store, RedisKey(key)))

\* RedisCacheBackend.clear
RedisClear(store, fail) ==
  IF fail THEN Returned(<<>>, store)
  ELSE Returned(<<>>, {e \in store : ~StartsWith(e.key, SplpPrefix)})

\* RedisCacheBackend.keys(prefix + "*"): the set of keys returned
RedisKeys(store, prefix, fail) ==
  IF fail THEN {}
  ELSE {RemoveAll(e.key, SplpPrefix) : e \in {x \in store : StartsWith(x.key, RedisKey(prefix))}}

\* RedisCacheBackend.size
RedisSize(store, fail) ==
  IF fail THEN 0 ELSE Cardinality({e \in store : StartsWith(e.key, SplpPrefix)})

(* ---------------- CacheService ---------------- *)

\* the environment of the process at construction
Environments ==
  [available : BOOLEAN,       \* REDIS_AVAILABLE: the import succeeded
   port_ok : BOOLEAN,         \* REDIS_PORT parses as an integer
   ctor_raises : BOOLEAN,     \* RedisCacheBackend(...) raises
   ping : {"ok", "false", "raise"}]

NoEnvironment ==
  [constructed |-> FALSE, failed |-> FALSE, chosen |-> "none",
   env |-> [available |-> FALSE, port_ok |-> TRUE, ctor_raises |-> FALSE, ping |-> "false"]]

\* RedisCacheBackend.ping: an exception of the client counts as False
Ping(env) == env.ping = "ok"

\* fault variant: the networked backend is taken without the probe
BackendForUnprobed(env) ==
  IF env.available /\ ~env.ctor_raises THEN "redis" ELSE "in-memory"

\* CacheService._initialize_backend: the backend type it selects
BackendFor(env) ==
  IF env.available /\ ~env.ctor_raises /\ Ping(env) THEN "redis" ELSE "in-memory"

SvcOp(op, result, raised, fail) ==
  [op |-> op, result |-> result, raised |-> raised, fail |-> fail,
   before |-> redisStore]

dataRest == <<rows, nextId, summaryExists, summary, lastOp, hist, rebuilds>>

\* CacheService.__init__; int(os.getenv("REDIS_PORT")) is evaluated outside
\* the try block when the library is available, so a malformed port makes
\* the construction raise
Construct(env) ==
  /\ ~svcEnv.constructed /\ ~svcEnv.failed
  /\ IF env.available /\ ~env.port_ok
     THEN /\ svcEnv' = [svcEnv EXCEPT !.failed = TRUE, !.env = env]
          /\ svcOp' = SvcOp("construct", <<>>, TRUE, FALSE)
          /\ UNCHANGED backendType
     ELSE /\ backendType' = BackendFor(env)
          /\ svcEnv' = [constructed |-> TRUE, failed |-> FALSE,
                        chosen |-> BackendFor(env), env |-> env]
          /\ svcOp' = SvcOp("construct", <<>>, FALSE, FALSE)
  /\ UNCHANGED <<redisStore, cache, dataRest, regVars, san, jobVars>>

\* CacheService.get
CacheGet(key, fail) ==
  /\ svcEnv.constructed
  /\ IF backendType = "redis"
     THEN LET r == RedisGet(redisStore, key, fail) IN
          /\ svcOp' = SvcOp("get", r.value, r.raised, fail)
          /\ redisStore' = r.store
          /\ UNCHANGED cache
     ELSE LET got == BackendGet(cache, key) IN
          /\ svcOp' = SvcOp("get", IF got.hit THEN <<got.value>> ELSE <<>>, FALSE, FALSE)
          /\ cache' = got.cache
          /\ UNCHANGED redisStore
  /\ UNCHANGED <<backendType, svcEnv, dataRest, regVars, san, jobVars>>

\* CacheService.set
CacheSet(key, value, fail) ==
  /\ svcEnv.constructed
  /\ IF backendType = "redis"
     THEN LET r == RedisSet(redisStore, key, value, fail) IN
          /\ svcOp' = SvcOp("set", r.value, r.raised, fail)
          /\ redisStore' = r.store
          /\ UNCHANGED cache
     ELSE /\ svcOp' = SvcOp("set", <<>>, FALSE, FALSE)
          /\ cache' = BackendSet(cache, key, value)
          /\ UNCHANGED redisStore
  /\ UNCHANGED <<backendType, svcEnv, dataRest, regVars, san, jobVars>>

\* CacheService.delete
CacheDelete(key, fail) ==
  /\ svcEnv.constructed
  /\ IF backendType = "redis"
     THEN LET r == RedisDelete(redisStore, key, fail) IN
          /\ svcOp' = SvcOp("delete", r.value, r.raised, fail)
          /\ redisStore' = r.store
          /\ UNCHANGED cache
     ELSE /\ svcOp' = SvcOp("delete", <<KeyIndex(cache, key) # 0>>, FALSE, FALSE)
          /\ cache' = BackendDelete(cache, key)
          /\ UNCHANGED redisStore
  /\ UNCHANGED <<backendType, svcEnv, dataRest, regVars, san, jobVars>>

\* CacheService.invalidate_prefix: keys(prefix + "*"), then delete each and
\* count the deletes that returned True; fail names the backend call that
\* meets a transport error: "keys", every "delete", or "none"
CacheInvalidatePrefix(prefix, fail) ==
  /\ svcEnv.constructed
  /\ IF backendType = "redis"
     THEN LET keys == RedisKeys(redisStore, prefix, fail = "keys")
              gone == IF fail = "delete" THEN {}
                      ELSE {e \in redisStore : \E k \in keys : e.key = RedisKey(k)}
          IN
          /\ svcOp' = SvcOp("invalidate_prefix", <<Cardinality(gone)>>, FALSE, fail # "none")
          /\ redisStore' = redisStore \ gone
          /\ UNCHANGED cache
     ELSE /\ svcOp' = SvcOp("invalidate_prefix",
                            <<Len(cache) - Len(InvalidatePrefix(cache, prefix))>>, FALSE, FALSE)
          /\ cache' = InvalidatePrefix(cache, prefix)
          /\ UNCHANGED redisStore
  /\ UNCHANGED <<backendType, svcEnv, dataRest, regVars, san, jobVars>>

\* CacheService.clear
CacheClear(fail) ==
  /\ svcEnv.constructed
  /\ IF backendType = "redis"
     THEN LET r == RedisClear(redisStore, fail) IN
          /\ svcOp' = SvcOp("clear", r.value, r.raised, fail)
          /\ redisStore' = r.store
          /\ UNCHANGED cache
     ELSE /\ svcOp' = SvcOp("clear", <<>>, FALSE, FALSE)
          /\ cache' = <<>>
          /\ UNCHANGED redisStore
  /\ UNCHANGED <<backendType, svcEnv, dataRest, regVars, san, jobVars>>

\* CacheService.stats: the "size" it reports
CacheStats(fail) ==
  /\ svcEnv.constructed
  /\ svcOp' = SvcOp("stats",
                    <<IF backendType = "redis" THEN RedisSize(redisStore, fail) ELSE Len(cache)>>,
                    FALSE, backendType = "redis" /\ fail)
  /\ UNCHANGED <<backendType, redisStore, svcEnv, cache, dataRest, regVars, san, jobVars>>

\* the TTL of a key of the networked cache runs out
RedisExpire(e) ==
  /\ e \in redisStore
  /\ redisStore' = redisStore \ {e}
  /\ svcOp' = SvcOp("expire", <<>>, FALSE, FALSE)
  /\ UNCHANGED <<backendType, svcEnv, cache, dataRest, regVars, san, jobVars>>

(* ---------------- concurrent sessions ---------------- *)
\* upsert_data and get_dynamic_data as the steps of their statements: rows
\* holds what is committed, a writer keeps its uncommitted statement in
\* pending, and every session reads what is committed

Writers == {1, 2}

\* pc: idle, execute, commit, invalidate, caller_commit, done; own: the call
\* opened its session (db is None); found: the row of SELECT ... .first();
\* pending: the row version its statement wrote; failed: a statement raised
\* for a reason outside the program
NoWriter ==
  [pc |-> "idle", own |-> TRUE, uid |-> 0, tgl |-> NoDate, data |-> AllAbsent,
   found |-> <<>>, pending |-> <<>>, committed |-> FALSE, failed |-> FALSE,
   status |-> "none", action |-> "none"]

NoReader == [pc |-> "idle", total |-> <<>>, returned |-> <<>>]

\* the result of process_upload: success, message and stats; default: the
\* registry had a default schema at the call
NoUpload ==
  [op |-> "none", table_id |-> Null, file |-> [error |-> "none", rows |-> <<>>],
   default |-> FALSE, success |-> FALSE, message |-> "",
   total_rows |-> 0, inserted |-> 0, updated |-> 0, skipped |-> 0]

\* the writer holds the lock of the row it wrote until its transaction ends
HoldsLock(x, id) ==
  /\ writers[x].pending # <<>>
  /\ writers[x].pending[1].id = id
  /\ ~writers[x].committed

\* the calls that are going to insert, or inserted without commit so far
Inserting ==
  {x \in Writers : /\ writers[x].pc \notin {"idle", "done"}
                   /\ writers[x].found = <<>>
                   /\ ~writers[x].committed}

\* the table after the transaction that wrote the row version committed
Committed(R, pending) ==
  {r \in R : \A q \in Range(pending) : q.id # r.id} \cup Range(pending)

\* upsert_data, up to the existence check: the schema lookup and
\* SELECT ... WHERE unit_kerja_id = :uid AND tanggal = :tgl, .first()
UpsertSelect(w, own, uid, tgl, data) ==
  /\ writers[w].pc \in {"idle", "done"}
  /\ Matching(uid, tgl) = {} =>
       /\ Cardinality(rows) + Cardinality(Inserting) < MaxRows
       /\ nextId + Cardinality(Inserting) <= MaxId
  /\ \E found \in (IF Matching(uid, tgl) = {} THEN {<<>>}
                   ELSE {<<r>> : r \in Matching(uid, tgl)}) :
       writers' = [writers EXCEPT ![w] =
                     [NoWriter EXCEPT !.pc = "execute", !.own = own, !.uid = uid,
                                      !.tgl = tgl, !.data = data, !.found = found]]
  /\ UNCHANGED <<dataVars, regVars, svcVars, san, reader, upload, mem>>

\* fault variant: the table has a unique key on (unit_kerja_id, tanggal), so
\* an INSERT for a key that a committed row holds raises
UpsertExecuteUniqueKey(w, fail) ==
  LET me == writers[w] IN
  /\ me.pc = "execute"
  /\ IF fail \/ (me.found = <<>> /\ Matching(me.uid, me.tgl) # {})
     THEN /\ writers' = [writers EXCEPT ![w].pc = "done", ![w].status = "error",
                                        ![w].failed = fail]
          /\ UNCHANGED nextId
     ELSE IF me.found = <<>>
     THEN /\ writers' = [writers EXCEPT
                           ![w].pending = <<[id |-> nextId, uid |-> me.uid, tgl |-> me.tgl,
                                             total |-> InsertTotal(me.data),
                                             v |-> InsertValues(me.data)]>>,
                           ![w].action = "inserted",
                           ![w].pc = IF me.own THEN "commit" ELSE "invalidate"]
          /\ nextId' = nextId + 1
     ELSE LET existing == me.found[1]
              merged == MergeValues(existing.v, me.data)
          IN
          /\ Fits(merged)
          /\ \A x \in Writers \ {w} : ~HoldsLock(x, existing.id)
          /\ writers' = [writers EXCEPT
                           ![w].pending =
                              <<[existing EXCEPT !.v = [c \in ColNames |-> Stored(c, merged[c])],
                                                 !.total = MergeTotal(merged)]>>,
                           ![w].action = "updated",
                           ![w].pc = IF me.own THEN "commit" ELSE "invalidate"]
          /\ UNCHANGED nextId
  /\ UNCHANGED <<rows, summaryExists, summary, cache, lastOp, hist, rebuilds>>
  /\ UNCHANGED <<regVars, svcVars, san, reader, upload, mem>>

\* upsert_data: session.execute of the UPDATE or the INSERT it built from
\* the row it selected; fail: the statement raises (except branch: rollback
\* when the session is its own, error result)
UpsertExecute(w, fail) ==
  LET me == writers[w] IN
  /\ me.pc = "execute"
  /\ IF fail
     THEN /\ writers' = [writers EXCEPT ![w].pc = "done", ![w].status = "error",
                                        ![w].failed = TRUE]
          /\ UNCHANGED nextId
     ELSE IF me.found = <<>>
     THEN /\ writers' = [writers EXCEPT
                           ![w].pending = <<[id |-> nextId, uid |-> me.uid, tgl |-> me.tgl,
                                             total |-> InsertTotal(me.data),
                                             v |-> InsertValues(me.data)]>>,
                           ![w].action = "inserted",
                           ![w].pc = IF me.own THEN "commit" ELSE "invalidate"]
          /\ nextId' = nextId + 1
     ELSE LET existing == me.found[1]
              merged == MergeValues(existing.v, me.data)
          IN
          /\ Fits(merged)
          /\ \A x \in Writers \ {w} : ~HoldsLock(x, existing.id)
          /\ writers' = [writers EXCEPT
                           ![w].pending =
                              <<[existing EXCEPT !.v = [c \in ColNames |-> Stored(c, merged[c])],
                                                 !.total = MergeTotal(merged)]>>,
                           ![w].action = "updated",
                           ![w].pc = IF me.own THEN "commit" ELSE "invalidate"]
          /\ UNCHANGED nextId
  /\ UNCHANGED <<rows, summaryExists, summary, cache, lastOp, hist, rebuilds>>
  /\ UNCHANGED <<regVars, svcVars, san, reader, upload, mem>>

\* upsert_data: "if not db: session.commit()"
UpsertCommit(w) ==
  /\ writers[w].pc = "commit"
  /\ rows' = Committed(rows, writers[w].pending)
  /\ hist' = [hist EXCEPT ![<<writers[w].uid, writers[w].tgl>>] = Impure]
  /\ writers' = [writers EXCEPT ![w].committed = TRUE, ![w].pc = "invalidate"]
  /\ RebuildsAfterWrite
  /\ UNCHANGED <<nextId, summaryExists, summary, cache, lastOp>>
  /\ UNCHANGED <<regVars, svcVars, san, reader, upload, mem>>

\* upsert_data: the invalidation block and the return; with a session of
\* the caller the transaction is still open at the return
UpsertInvalidate(w) ==
  /\ writers[w].pc = "invalidate"
  /\ cache' = InvalidateOnWrite(cache, TableId)
  /\ writers' = [writers EXCEPT ![w].status = "success",
                                ![w].pc = IF writers[w].own THEN "done" ELSE "caller_commit"]
  /\ UNCHANGED <<rows, nextId, summaryExists, summary, lastOp, hist, rebuilds>>
  /\ UNCHANGED <<regVars, svcVars, san, reader, upload, mem>>

\* process_upload: self.db.commit() after the row loop; fail: the commit
\* raises and the transaction is rolled back
UploadCommit(w, fail) ==
  /\ writers[w].pc = "caller_commit"
  /\ IF fail
     THEN /\ writers' = [writers EXCEPT ![w].pending = <<>>, ![w].failed = TRUE,
                                        ![w].pc = "done"]
          /\ UNCHANGED <<rows, hist>>
     ELSE /\ rows' = Committed(rows, writers[w].pending)
          /\ hist' = [hist EXCEPT ![<<writers[w].uid, writers[w].tgl>>] = Impure]
          /\ writers' = [writers EXCEPT ![w].committed = TRUE, ![w].pc = "done"]
  /\ RebuildsAfterWrite
  /\ UNCHANGED <<nextId, summaryExists, summary, cache, lastOp>>
  /\ UNCHANGED <<regVars, svcVars, san, reader, upload, mem>>

\* get_dynamic_data without filters: cache.get(f"total_count_{table_id}")
ReadCacheGet ==
  LET got == BackendGet(cache, TotalCountKey(TableId)) IN
  /\ reader.pc = "idle"
  /\ cache' = got.cache
  /\ reader' = IF got.hit
               THEN [pc |-> "idle", total |-> <<>>, returned |-> got.value]
               ELSE [pc |-> "count", total |-> <<>>, returned |-> <<>>]
  /\ UNCHANGED <<rows, nextId, summaryExists, summary, lastOp, hist, rebuilds>>
  /\ UNCHANGED <<regVars, svcVars, san, writers, upload, mem>>

\* get_dynamic_data: SELECT COUNT(*) in the session of the reader
ReadCount ==
  /\ reader.pc = "count"
  /\ reader' = [reader EXCEPT !.pc = "set", !.total = <<Cardinality(rows)>>]
  /\ UNCHANGED <<dataVars, regVars, svcVars, san, writers, upload, mem>>

\* get_dynamic_data: cache.set(cache_key, total, ttl=300) and the return
ReadCacheSet ==
  /\ reader.pc = "set"
  /\ cache' = BackendSet(cache, TotalCountKey(TableId), reader.total)
  /\ reader' = [pc |-> "idle", total |-> <<>>, returned |-> reader.total]
  /\ UNCHANGED <<rows, nextId, summaryExists, summary, lastOp, hist, rebuilds>>
  /\ UNCHANGED <<regVars, svcVars, san, writers, upload, mem>>

(* ---------------- an in-process backend of a given max_size ---------------- *)
\* InMemoryCacheBackend(max_size) on its own; a key is named by the order
\* of its first insertion, a key that was deleted and is set again is a new
\* key to the dict

MaxSizes == {0, 1, 2, 3, 10, 11}

\* the dict after n sets of distinct keys, none expired
Filled(n) == [i \in 1..n |-> [key |-> i, value |-> <<0>>, expired |-> FALSE]]

\* the backend, and its last call: hit and stale describe the entry that a
\* get returned
Mem(max_size, store, nextKey, calls, op, hit, stale) ==
  [max_size |-> max_size, store |-> store, nextKey |-> nextKey, calls |-> calls,
   op |-> op, hit |-> hit, stale |-> stale]

NoMem == Mem(CacheMaxSize, <<>>, 1, 0, "none", FALSE, FALSE)

MemKeys == {mem.store[i].key : i \in 1..Len(mem.store)} \cup {mem.nextKey}

\* InMemoryCacheBackend.set
InMemorySet(key) ==
  /\ mem.calls < MaxCalls
  /\ key \in MemKeys
  /\ mem' = Mem(mem.max_size, SetWithMaxSize(mem.store, key, <<0>>, mem.max_size),
                IF key = mem.nextKey THEN mem.nextKey + 1 ELSE mem.nextKey,
                mem.calls + 1, "set", FALSE, FALSE)
  /\ UNCHANGED <<dataVars, regVars, svcVars, san, writers, reader, upload>>

\* InMemoryCacheBackend.get
InMemoryGet(key) ==
  /\ mem.calls < MaxCalls
  /\ key \in MemKeys
  /\ LET got == BackendGet(mem.store, key)
         i == KeyIndex(mem.store, key)
     IN mem' = Mem(mem.max_size, got.cache, mem.nextKey, mem.calls + 1, "get", got.hit,
                   got.hit /\ mem.store[i].expired)
  /\ UNCHANGED <<dataVars, regVars, svcVars, san, writers, reader, upload>>

\* InMemoryCacheBackend.delete
InMemoryDelete(key) ==
  /\ mem.calls < MaxCalls
  /\ key \in MemKeys
  /\ mem' = Mem(mem.max_size, BackendDelete(mem.store, key), mem.nextKey, mem.calls + 1,
                "delete", FALSE, FALSE)
  /\ UNCHANGED <<dataVars, regVars, svcVars, san, writers, reader, upload>>

\* InMemoryCacheBackend.clear
InMemoryClear ==
  /\ mem.calls < MaxCalls
  /\ mem' = Mem(mem.max_size, <<>>, mem.nextKey, mem.calls + 1, "clear", FALSE, FALSE)
  /\ UNCHANGED <<dataVars, regVars, svcVars, san, writers, reader, upload>>

\* time passes beyond the expires_at of an entry
InMemoryExpire(i) ==
  /\ mem.calls < MaxCalls
  /\ i \in 1..Len(mem.store)
  /\ ~mem.store[i].expired
  /\ mem' = [mem EXCEPT !.store[i].expired = TRUE, !.calls = @ + 1,
                         !.op = "expire", !.hit = FALSE, !.stale = FALSE]
  /\ UNCHANGED <<dataVars, regVars, svcVars, san, writers, reader, upload>>

(* ---------------- UploadService ---------------- *)
\* a file is [error, rows]: error is "none", "parse" (parse_file returns an
\* error) or "validate" (validate_data finds a required column missing); a
\* row is [kind, uid, tgl, cells] with kind "valid" or "skip" (unit_kerja or
\* instansi empty, tanggal not a date)

\* UploadService.safe_value, and the default of a column the file lacks
SafeValue(val, data_type) ==
  IF data_type = "integer"
  THEN IF val \in {Absent, Null, Txt} THEN 0 ELSE val
  ELSE Txt

\* json_data: every column of the schema gets a value
JsonData(cells) == [c \in ColNames |-> SafeValue(cells[c], ColDef(c).data_type)]

\* TableService.get_default_table: the schemas .first() can return
GetDefaultTable ==
  IF \E t \in tableDefs : t.is_default THEN {t \in tableDefs : t.is_default}
  ELSE tableDefs

\* one pass of the row loop on the session of the upload: acc is what the
\* session sees, its counters, and whether the pass stays within the bounds
UploadRow(acc, row) ==
  IF row.kind # "valid" THEN [acc EXCEPT !.skipped = @ + 1]
  ELSE LET data == JsonData(row.cells)
           match == {r \in acc.rows : r.uid = row.uid /\ r.tgl = row.tgl}
       IN IF match # {}
          THEN LET existing == CHOOSE r \in match : \A q \in match : r.id <= q.id
                   merged == MergeValues(existing.v, data)
               IN [acc EXCEPT
                     !.rows = (@ \ {existing}) \cup
                                {[existing EXCEPT
                                    !.v = [c \in ColNames |-> Stored(c, merged[c])],
                                    !.total = MergeTotal(merged)]},
                     !.updated = @ + 1,
                     !.ok = @ /\ Fits(merged)]
          ELSE [acc EXCEPT
                  !.rows = @ \cup {[id |-> acc.nextId, uid |-> row.uid, tgl |-> row.tgl,
                                    total |-> InsertTotal(data), v |-> InsertValues(data)]},
                  !.nextId = @ + 1,
                  !.inserted = @ + 1,
                  !.ok = @ /\ Cardinality(acc.rows) < MaxRows /\ acc.nextId <= MaxId]

RECURSIVE UploadRows(_, _)
UploadRows(acc, file_rows) ==
  IF file_rows = <<>> THEN acc
  ELSE UploadRows(UploadRow(acc, Head(file_rows)), Tail(file_rows))

\* self.db.query(TableDefinition)...filter(TableDefinition.id == table_id).first():
\* the comparison with None matches no row
LoadById(table_id) == IF table_id = Null THEN {} ELSE TableById(table_id)

\* UploadService.process_upload; fail: the final commit raises
ProcessUpload(table_id, file, fail) ==
  LET table_def == IF table_id # Null /\ table_id # 0 THEN TableById(table_id)
                   ELSE GetDefaultTable
      table_def_obj == LoadById(table_id)
      start == [rows |-> rows, nextId |-> nextId, inserted |-> 0, updated |-> 0,
                skipped |-> 0, ok |-> TRUE]
      result(success, message, total_rows, acc) ==
        [op |-> "process_upload", table_id |-> table_id, file |-> file,
         default |-> \E t \in tableDefs : t.is_default,
         success |-> success, message |-> message, total_rows |-> total_rows,
         inserted |-> acc.inserted, updated |-> acc.updated, skipped |-> acc.skipped]
  IN
  /\ table_def \subseteq TableById(TableId)
  /\ IF table_def = {}
     THEN /\ upload' = result(FALSE, "Definisi tabel tidak ditemukan", 0, start)
          /\ UNCHANGED <<rows, nextId, cache, hist>>
     ELSE IF table_def_obj = {}
     THEN /\ upload' = result(FALSE, "Tabel tidak ditemukan", 0, start)
          /\ UNCHANGED <<rows, nextId, cache, hist>>
     ELSE IF file.error = "parse"
     THEN /\ upload' = result(FALSE, "Error membaca file", 0, start)
          /\ UNCHANGED <<rows, nextId, cache, hist>>
     ELSE IF file.error = "validate" \/ file.rows = <<>>
     THEN /\ upload' = result(FALSE, "Validasi gagal", 0, start)
          /\ UNCHANGED <<rows, nextId, cache, hist>>
     ELSE LET acc == UploadRows(start, file.rows) IN
          /\ acc.ok
          /\ nextId' = acc.nextId
          /\ cache' = IF acc.inserted + acc.updated > 0
                      THEN InvalidateOnWrite(cache, TableId) ELSE cache
          /\ IF fail
             THEN /\ upload' = result(FALSE, "Error saat menyimpan", Len(file.rows), acc)
                  /\ UNCHANGED <<rows, hist>>
             ELSE /\ upload' = result(TRUE, "Upload berhasil", Len(file.rows), acc)
                  /\ rows' = acc.rows
                  /\ hist' = [k \in Keys |->
                                IF \E i \in 1..Len(file.rows) :
                                     /\ file.rows[i].kind = "valid"
                                     /\ <<file.rows[i].uid, file.rows[i].tgl>> = k
                                THEN Impure ELSE hist[k]]
  /\ RebuildsAfterWrite
  /\ UNCHANGED <<summaryExists, summary, lastOp>>
  /\ UNCHANGED <<regVars, svcVars, san, writers, reader, mem>>

(* ---------------- specification ---------------- *)

\* the payload values tried for a column
InValues(c) ==
  IF ColDef(c).data_type = "integer" THEN {Absent, Null, Txt, 1, 2}
  ELSE {Absent, Txt}

Payloads ==
  {d \in [ColNames -> {Absent, Null, Txt, 1, 2}] : \A c \in ColNames : d[c] \in InValues(c)}

\* {"a": 2, "b": 1}
PlainPayload == [c \in ColNames |-> IF c = "a" THEN 2 ELSE IF c = "b" THEN 1 ELSE Absent]

\* {"a": null}
NullPayload == [c \in ColNames |-> IF c = "a" THEN Null ELSE Absent]

MainKey == <<1, [y |-> 2025, m |-> 1, d |-> 15]>>

OtherKey == <<2, [y |-> 2025, m |-> 1, d |-> 15]>>

\* {"a": "abc"}
TxtPayload == [c \in ColNames |-> IF c = "a" THEN Txt ELSE Absent]

\* the schema of the record operations as the registry holds it
SchemaName == <<"d", "a", "t", "a">>

SchemaColumns ==
  << [name |-> <<"a">>, data_type |-> "integer", is_summable |-> TRUE],
     [name |-> <<"b">>, data_type |-> "integer", is_summable |-> TRUE],
     [name |-> <<"k", "e", "t">>, data_type |-> "text", is_summable |-> FALSE] >>

NoSvcOp == [op |-> "none", result |-> <<>>, raised |-> FALSE, fail |-> FALSE, before |-> {}]

\* a service constructed without the Redis library
BuiltInMemory ==
  [constructed |-> TRUE, failed |-> FALSE, chosen |-> "in-memory",
   env |-> [available |-> FALSE, port_ok |-> TRUE, ctor_raises |-> FALSE, ping |-> "false"]]

\* the record operations start with their schema registered and its physical
\* table created, and with the in-process cache backend
\* the service after start-up with one registered schema and no rows
InitService ==
  /\ rows = {}
  /\ nextId = 1
  /\ summaryExists = FALSE
  /\ summary = {}
  /\ cache = <<>>
  /\ lastOp = NoOp
  /\ hist = [k \in Keys |-> NoHist]
  /\ rebuilds = <<>>
  /\ tableDefs = {[id |-> TableId, name |-> SchemaName, is_default |-> TRUE]}
  /\ columnDefs = ColumnRows(TableId, SchemaColumns)
  /\ physical = {[name |-> SchemaName, cols |-> DdlColumns(SchemaColumns)]}
  /\ nextTableId = TableId + 1
  /\ regOp = NoRegOp
  /\ backendType = "in-memory"
  /\ redisStore = {}
  /\ svcOp = NoSvcOp
  /\ svcEnv = BuiltInMemory
  /\ san = NoSanitized
  /\ writers = [w \in Writers |-> NoWriter]
  /\ reader = NoReader
  /\ upload = NoUpload

Init == InitService /\ mem = NoMem

\* serialized upsert_data calls: every payload on one key, a plain payload on
\* another key
NextUpsert ==
  \/ \E data \in Payloads, strict \in BOOLEAN :
       UpsertData(TableId, MainKey[1], MainKey[2], data, strict, FALSE)
  \/ UpsertData(TableId, OtherKey[1], OtherKey[2], PlainPayload, TRUE, FALSE)

SpecUpsert == Init /\ [][NextUpsert]_vars

\* the four record write operations of TableService
NextWrite ==
  \/ \E k \in {MainKey, OtherKey}, data \in {PlainPayload, NullPayload} :
       CreateDynamicData(k[1], k[2], data, TRUE)
  \/ \E k \in {MainKey, OtherKey}, data \in {PlainPayload, NullPayload} :
       UpsertData(TableId, k[1], k[2], data, TRUE, FALSE)
  \/ \E id \in 1..MaxId, data \in {PlainPayload, NullPayload} :
       UpdateDynamicData(id, data, TRUE)
  \/ \E id \in 1..MaxId : DeleteDynamicData(id)

SpecWrite == Init /\ [][NextWrite]_vars

\* record writes and deletes together with the summary materializer
NextSummary ==
  \/ \E k \in Keys : UpsertData(TableId, k[1], k[2], PlainPayload, TRUE, FALSE)
  \/ \E id \in 1..MaxId : DeleteDynamicData(id)
  \/ \E fail \in SummaryFailures : CreateSummaryTable(fail)
  \/ \E k \in Keys : UpdateSummaryRow(TableId, k[1], k[2], "none")

SpecSummary == Init /\ [][NextSummary]_vars

\* data mutations together with the cached read paths
NextCache ==
  \/ CreateDynamicData(MainKey[1], MainKey[2], PlainPayload, TRUE)
  \/ UpsertData(TableId, MainKey[1], MainKey[2], PlainPayload, TRUE, FALSE)
  \/ \E id \in 1..MaxId : UpdateDynamicData(id, PlainPayload, TRUE)
  \/ \E id \in 1..MaxId : DeleteDynamicData(id)
  \/ GetStatistics
  \/ GetDynamicData
  \/ GetGrafanaMonthly
  \/ \E i \in 1..Len(cache) : Expire(i)

SpecCache == Init /\ [][NextCache]_vars

\* upsert_data on a registered and on an unregistered table_id, with
\* payloads and failures that make its statements raise, between cached reads
NextFailure ==
  \/ \E table_id \in {TableId, UnknownTableId}, k \in {MainKey, OtherKey},
        data \in {PlainPayload, TxtPayload}, strict \in BOOLEAN, fail \in BOOLEAN :
       UpsertData(table_id, k[1], k[2], data, strict, fail)
  \/ GetStatistics
  \/ GetDynamicData

SpecFailure == Init /\ [][NextFailure]_vars

\* the incremental recompute on a registered and on an unregistered
\* table_id, with and without a failing statement, between raw writes and
\* full rebuilds
NextRecompute ==
  \/ \E k \in {MainKey, OtherKey} : UpsertData(TableId, k[1], k[2], PlainPayload, TRUE, FALSE)
  \/ \E id \in 1..MaxId : DeleteDynamicData(id)
  \/ CreateSummaryTable("none")
  \/ \E table_id \in {TableId, UnknownTableId}, k \in {MainKey, OtherKey},
        fail \in SummaryRowFailures :
       UpdateSummaryRow(table_id, k[1], k[2], fail)

SpecRecompute == Init /\ [][NextRecompute]_vars

(* ---------------- specification of the registry ---------------- *)

\* a table created out of band (by a bulk loader): it is in the catalog and
\* not in the registry
OutOfBandTable ==
  [name |-> <<"a", "-", "b">>,
   cols |-> SubSeq(ReservedColumns, 1, 4) \o <<[name |-> <<"x">>, type |-> "integer"]>>]

\* the names and column lists tried by create_table
TableNames == {<<"a", "b">>, <<"a", "-", "b">>, <<"-">>}

IntColumn(name) == [name |-> name, data_type |-> "integer", is_summable |-> TRUE]

ColumnLists ==
  { <<>>,
    <<IntColumn(<<"x">>)>>,
    <<IntColumn(<<"x", "-", "y">>)>>,
    <<IntColumn(<<"i", "d">>)>>,
    <<IntColumn(<<"-">>)>> }

InitRegistry ==
  /\ rows = {}
  /\ nextId = 1
  /\ summaryExists = FALSE
  /\ summary = {}
  /\ cache = <<>>
  /\ lastOp = NoOp
  /\ hist = [k \in Keys |-> NoHist]
  /\ rebuilds = <<>>
  /\ tableDefs = {}
  /\ columnDefs = {}
  /\ physical = {OutOfBandTable}
  /\ nextTableId = 1
  /\ regOp = NoRegOp
  /\ backendType = "in-memory"
  /\ redisStore = {}
  /\ svcOp = NoSvcOp
  /\ svcEnv = BuiltInMemory
  /\ san = NoSanitized
  /\ writers = [w \in Writers |-> NoWriter]
  /\ reader = NoReader
  /\ upload = NoUpload
  /\ mem = NoMem

\* create_table and delete_table where only DDL statements fail
NextLifecycle ==
  \/ \E name \in TableNames, columns \in ColumnLists, fail \in DdlFailures :
       CreateTable(name, columns, fail)
  \/ \E id \in 1..MaxTables, fail \in {"none", "drop"} : DeleteTable(id, fail)

SpecLifecycle == InitRegistry /\ [][NextLifecycle]_vars

\* the serialized registry operations of TableService
NextRegistry ==
  \/ \E name \in TableNames, columns \in ColumnLists, fail \in DdlFailures :
       CreateTable(name, columns, fail)
  \/ \E p \in physical, fail \in BOOLEAN :
       RegisterExistingTable(p.name, GetTableColumns(p), fail)
  \/ \E id \in 1..MaxTables, is_default \in {Null, 0, 1} : UpdateTable(id, is_default)
  \/ \E id \in 1..MaxTables, fail \in DeleteFailures : DeleteTable(id, fail)

SpecRegistry == InitRegistry /\ [][NextRegistry]_vars

\* schemas created and registered, and the statements that the summary
\* service and the statistics paths send for them
NextSql ==
  \/ \E name \in TableNames, columns \in ColumnLists : CreateTable(name, columns, "none")
  \/ \E p \in physical : RegisterExistingTable(p.name, GetTableColumns(p), FALSE)
  \/ \E id \in 1..MaxTables : DeleteTable(id, "none")
  \/ \E id \in 1..MaxTables : CreateSummaryTableFor(id)
  \/ \E id \in 1..MaxTables : GetGrafanaMonthlyFor(id)
  \/ \E id \in 1..MaxTables : GetStatisticsFor(id)

SpecSql == InitRegistry /\ [][NextSql]_vars

(* ---------------- specification of the name sanitizer ---------------- *)

MaxNameLen == 2

\* the characters of the names tried: ASCII letters of both cases, a digit,
\* underscore, hyphen, space, and characters outside ASCII
NameChars == {"a", "B", "7", "_", "-", " ", "U+00E9", "U+0130", "U+0307"}

RECURSIVE NamesUpTo(_)
NamesUpTo(n) ==
  IF n = 0 THEN {<<>>}
  ELSE LET shorter == NamesUpTo(n - 1)
       IN shorter \cup {Append(s, ch) : s \in shorter, ch \in NameChars}

InitSanitize ==
  /\ rows = {}
  /\ nextId = 1
  /\ summaryExists = FALSE
  /\ summary = {}
  /\ cache = <<>>
  /\ lastOp = NoOp
  /\ hist = [k \in Keys |-> NoHist]
  /\ rebuilds = <<>>
  /\ tableDefs = {}
  /\ columnDefs = {}
  /\ physical = {}
  /\ nextTableId = 1
  /\ regOp = NoRegOp
  /\ backendType = "in-memory"
  /\ redisStore = {}
  /\ svcOp = NoSvcOp
  /\ svcEnv = BuiltInMemory
  /\ san \in {Sanitized(0, name, <<>>, <<>>) : name \in NamesUpTo(MaxNameLen)}
  /\ writers = [w \in Writers |-> NoWriter]
  /\ reader = NoReader
  /\ upload = NoUpload
  /\ mem = NoMem

NextSanitize == SanitizeOnce \/ SanitizeTwice

SpecSanitize == InitSanitize /\ [][NextSanitize]_vars

(* ---------------- specification of the cache service ---------------- *)

CacheKeys == {StatsKey(TableId), TotalCountKey(TableId), GrafanaMonthlyKey(TableId)}

CacheValues == {<<1>>, <<2>>}

CachePrefixes == {StatsPrefix, TotalCountPrefix, GrafanaPrefix}

InitBackend ==
  /\ rows = {}
  /\ nextId = 1
  /\ summaryExists = FALSE
  /\ summary = {}
  /\ cache = <<>>
  /\ lastOp = NoOp
  /\ hist = [k \in Keys |-> NoHist]
  /\ rebuilds = <<>>
  /\ tableDefs = {}
  /\ columnDefs = {}
  /\ physical = {}
  /\ nextTableId = 1
  /\ regOp = NoRegOp
  /\ backendType = "none"
  /\ redisStore = {}
  /\ svcOp = NoSvcOp
  /\ svcEnv = NoEnvironment
  /\ san = NoSanitized
  /\ writers = [w \in Writers |-> NoWriter]
  /\ reader = NoReader
  /\ upload = NoUpload
  /\ mem = NoMem

\* the construction of the process-wide CacheService and its operations,
\* each with and without a transport error of the Redis client
NextBackend ==
  \/ \E env \in Environments : Construct(env)
  \/ \E key \in CacheKeys, fail \in BOOLEAN : CacheGet(key, fail)
  \/ \E key \in CacheKeys, value \in CacheValues, fail \in BOOLEAN : CacheSet(key, value, fail)
  \/ \E key \in CacheKeys, fail \in BOOLEAN : CacheDelete(key, fail)
  \/ \E prefix \in CachePrefixes, fail \in {"none", "keys", "delete"} :
       CacheInvalidatePrefix(prefix, fail)
  \/ \E fail \in BOOLEAN : CacheClear(fail)
  \/ \E fail \in BOOLEAN : CacheStats(fail)
  \/ \E e \in redisStore : RedisExpire(e)

SpecBackend == InitBackend /\ [][NextBackend]_vars

(* ---------------- specification of an in-process backend ---------------- *)
\* a backend of some max_size, empty or after max_size sets of distinct keys
InitMemory ==
  /\ InitService
  /\ \E max_size \in MaxSizes : \E n \in {0, max_size} :
       mem = Mem(max_size, Filled(n), n + 1, 0, "none", FALSE, FALSE)

\* the names of the keys that the calls can reach
KeyNames == 1..(11 + MaxCalls)

NextMemory ==
  \/ \E key \in KeyNames : InMemorySet(key)
  \/ \E key \in KeyNames : InMemoryGet(key)
  \/ \E key \in KeyNames : InMemoryDelete(key)
  \/ InMemoryClear
  \/ \E i \in KeyNames : InMemoryExpire(i)

SpecMemory == InitMemory /\ [][NextMemory]_vars

(* ---------------- specification of concurrent sessions ---------------- *)

\* two upsert_data calls with their own sessions whose statements interleave
NextRace ==
  \/ \E w \in Writers, k \in {MainKey, OtherKey} :
       UpsertSelect(w, TRUE, k[1], k[2], PlainPayload)
  \/ \E w \in Writers, fail \in BOOLEAN : UpsertExecute(w, fail)
  \/ \E w \in Writers : UpsertCommit(w)
  \/ \E w \in Writers : UpsertInvalidate(w)

SpecRace == Init /\ [][NextRace]_vars

\* upsert_data calls with their own session or with the session of
\* process_upload, and an unfiltered get_dynamic_data, whose steps interleave
NextStale ==
  \/ \E w \in Writers, own \in BOOLEAN, k \in {MainKey, OtherKey} :
       UpsertSelect(w, own, k[1], k[2], PlainPayload)
  \/ \E w \in Writers, fail \in BOOLEAN : UpsertExecute(w, fail)
  \/ \E w \in Writers : UpsertCommit(w)
  \/ \E w \in Writers : UpsertInvalidate(w)
  \/ \E w \in Writers, fail \in BOOLEAN : UploadCommit(w, fail)
  \/ ReadCacheGet
  \/ ReadCount
  \/ ReadCacheSet

SpecStale == Init /\ [][NextStale]_vars

\* the files of an upload: up to MaxFileRows rows
FileRows ==
  {[kind |-> "skip", uid |-> 0, tgl |-> NoDate, cells |-> AllAbsent]}
    \cup {[kind |-> "valid", uid |-> MainKey[1], tgl |-> MainKey[2], cells |-> PlainPayload]}
    \cup {[kind |-> "valid", uid |-> OtherKey[1], tgl |-> OtherKey[2], cells |-> TxtPayload]}

Files ==
  {[error |-> e, rows |-> <<>>] : e \in {"none", "parse", "validate"}}
    \cup {[error |-> "none", rows |-> r]
          : r \in UNION {[1..n -> FileRows] : n \in 1..MaxFileRows}}

\* uploads through the route (no table_id) and with a table_id, between
\* deletes of single rows
NextUpload ==
  \/ \E table_id \in {Null, TableId, UnknownTableId}, file \in Files, fail \in BOOLEAN :
       ProcessUpload(table_id, file, fail)
  \/ \E id \in 1..MaxId : DeleteDynamicData(id)

SpecUpload == Init /\ [][NextUpload]_vars

Next == NextUpsert \/ NextWrite \/ NextSummary \/ NextCache \/ NextRegistry \/ NextSanitize \/ NextBackend \/ NextFailure \/ NextRace \/ NextRecompute \/ NextSql \/ NextMemory \/ NextStale \/ NextUpload

Spec == Init /\ [][Next]_vars

(* ---------------- claims ---------------- *)

Mutators == {"create_dynamic_data", "upsert_data", "update_dynamic_data", "delete_dynamic_data"}

Served(key) == BackendGet(cache, key).hit

\* C1: after a successful upsert_data on the schema, the entry that
\* @cached(prefix="stats_table") stores for get_statistics(table) is either
\* gone (the next call misses) or already holds the fresh statistics, so the
\* next get_statistics does not return the pre-write value.
C1_StatsNotStaleAfterUpsert ==
  (lastOp.op = "upsert_data" /\ lastOp.status = "success")
    => \/ ~Served(StatsKey(TableId))
       \/ BackendGet(cache, StatsKey(TableId)).value = Statistics(rows)

\* C2: after k >= 1 serialized upsert_data calls on one (unit_kerja_id,
\* tanggal) exactly one row exists for the key, the first call reported
\* 'inserted' and every later one 'updated', every summable integer column
\* that received integers v1..vk holds v1 + ... + vk, and when all of them
\* did, total is the sum of those sums.
C2_UpsertSequenceSums ==
  \A k \in Keys :
    (hist[k].pure /\ hist[k].k >= 1) =>
      /\ Cardinality(Matching(k[1], k[2])) = 1
      /\ hist[k].ok
      /\ \A r \in Matching(k[1], k[2]) :
           /\ \A c \in SumIntCols : hist[k].ints[c] => r.v[c] = hist[k].sum[c]
           /\ (\A c \in SumIntCols : hist[k].ints[c])
                => r.total = SetSum(SumIntCols, hist[k].sum)

C2_Witness ==
  /\ hist[MainKey].k = 3
  /\ \A c \in SumIntCols : hist[MainKey].ints[c]
  /\ hist[MainKey].sum["a"] = 3
  /\ \E r \in rows : r.uid = MainKey[1] /\ r.tgl = MainKey[2] /\ r.v["a"] = 3

\* C3: when upsert_data merges into an existing row, a summable integer
\* column that is missing from the payload, null or unparseable keeps its
\* stored value (+0, a stored NULL counting as 0), and total is the sum of
\* the new values of all summable integer columns.
C3_MergeKeepsOmitted ==
  (lastOp.op = "upsert_data" /\ lastOp.status = "success" /\ lastOp.action = "updated")
    => \A r \in RowById(lastOp.id) :
         /\ \A c \in SumIntCols :
              lastOp.data[c] \in {Absent, Null, Txt} => r.v[c] = OrZero(lastOp.old[c])
         /\ r.total = SetSum(SumIntCols, [c \in SumIntCols |-> r.v[c]])

\* upsert {a:2, b:1} then {a:1}: a = 3, b = 1, total = 4
C3_Witness ==
  /\ lastOp.op = "upsert_data" /\ lastOp.action = "updated"
  /\ lastOp.data["a"] = 1 /\ lastOp.data["b"] = Absent
  /\ lastOp.old["a"] = 2 /\ lastOp.old["b"] = 1
  /\ \E r \in RowById(lastOp.id) : r.v["a"] = 3 /\ r.v["b"] = 1 /\ r.total = 4

\* C4: every physical row satisfies total = sum of the stored values of the
\* summable integer columns, whatever create_dynamic_data, upsert_data and
\* update_dynamic_data calls were made.
C4_TotalIsSumOfColumns ==
  \A r \in rows : r.total = RowSum(r.v)

\* C5: under serialized calls of upsert_data and create_dynamic_data at most
\* one physical row exists for any (unit_kerja_id, tanggal).
C5_AtMostOneRowPerKey ==
  \A k \in Keys : Cardinality(Matching(k[1], k[2])) <= 1

\* the sum of a metric over raw rows, NULL counting as 0
RawSum(R, c) == SetSum(R, [r \in R |-> OrZero(RowField(r, c))])

\* the cells of (month 'YYYY-MM', unit)
CellsOf(uid, y, m) == {c \in summary : c.uid = uid /\ c.month = PyMonthStr(y, m)}

Months == {<<d.y, d.m>> : d \in Dates}

\* C6: every successful upsert_data(unit, date) is followed by the
\* incremental recompute of the (unit, year, month) cell: when a summary
\* table exists, at the return of upsert_data the cell holds the raw sums.
C6_UpsertRecomputesCell ==
  (lastOp.op = "upsert_data" /\ lastOp.status = "success" /\ summaryExists)
    => /\ Cardinality(CellsOf(lastOp.uid, lastOp.tgl.y, lastOp.tgl.m)) = 1
       /\ \A cell \in CellsOf(lastOp.uid, lastOp.tgl.y, lastOp.tgl.m) :
            \A c \in MetricCols :
              OrZero(cell.m[c]) = RawSum(CellRows(lastOp.uid, lastOp.tgl.y, lastOp.tgl.m), c)

\* C7: right after a successful create_summary_table the summary table holds
\* exactly one cell per (month, unit) that has a raw row, no other cell, each
\* metric of a cell is the sum of the column over the matching raw rows, and
\* the reported row count is the number of such pairs.
C7_RebuildMatchesRaw ==
  (lastOp.op = "create_summary_table" /\ lastOp.status = "success")
    => /\ summaryExists
       /\ \A u \in Units, ym \in Months :
            /\ Cardinality(CellsOf(u, ym[1], ym[2]))
                 = (IF CellRows(u, ym[1], ym[2]) # {} THEN 1 ELSE 0)
            /\ \A cell \in CellsOf(u, ym[1], ym[2]) :
                 /\ cell.year = ym[1]
                 /\ \A c \in MetricCols :
                      OrZero(cell.m[c]) = RawSum(CellRows(u, ym[1], ym[2]), c)
       /\ \A cell \in summary :
            \E u \in Units, ym \in Months : cell \in CellsOf(u, ym[1], ym[2])
       /\ lastOp.result =
            <<Cardinality({p \in Units \X Months : CellRows(p[1], p[2][1], p[2][2]) # {}})>>

\* two rows of one month and unit are summed into one cell
C7_Witness ==
  /\ lastOp.op = "create_summary_table" /\ lastOp.status = "success"
  /\ \E u \in Units, ym \in Months :
       /\ Cardinality(CellRows(u, ym[1], ym[2])) = 2
       /\ \E cell \in CellsOf(u, ym[1], ym[2]) : cell.m["a"] = 4

\* C8: two full rebuilds in a row with no raw write in between produce the
\* same cells, the same sums and the same reported row count.
C8_RebuildIdempotent ==
  Len(rebuilds) = 2 => rebuilds[1] = rebuilds[2]

C8_Witness ==
  /\ Len(rebuilds) = 2
  /\ Cardinality(rebuilds[2].cells) = 2
  /\ lastOp.op = "create_summary_table" /\ lastOp.status = "success"

\* C9: with a summary table present and no raw row left for (unit, year,
\* month), update_summary_row for that unit and a date of the month leaves
\* no cell for (month, unit).
C9_EmptyMonthCellRemoved ==
  (/\ lastOp.op = "update_summary_row"
   /\ summaryExists
   /\ CellRows(lastOp.uid, lastOp.tgl.y, lastOp.tgl.m) = {})
    => CellsOf(lastOp.uid, lastOp.tgl.y, lastOp.tgl.m) = {}

\* the recompute found a cell of the emptied month and removed it
C9_Witness ==
  /\ lastOp.op = "update_summary_row" /\ lastOp.action = "delete"
  /\ lastOp.result = <<1>>
  /\ summaryExists
  /\ CellRows(lastOp.uid, lastOp.tgl.y, lastOp.tgl.m) = {}
  /\ CellsOf(lastOp.uid, lastOp.tgl.y, lastOp.tgl.m) = {}

\* C10: every data mutation invalidates the four cache groups together:
\* after a successful create_dynamic_data, upsert_data, update_dynamic_data
\* or delete_dynamic_data no stats_table entry, no total_count_<table_id>,
\* no dashboard_stats and no grafana* entry cached before it is still served.
C10_AllGroupsInvalidated ==
  (lastOp.op \in Mutators /\ lastOp.status = "success")
    => /\ ~Served(StatsKey(TableId))
       /\ ~Served(TotalCountKey(TableId))
       /\ ~Served(DashboardKey)
       /\ \A i \in 1..Len(cache) :
            StartsWith(cache[i].key, GrafanaPrefix) => ~Served(cache[i].key)

\* the physical table a schema resolves to: the data operations pass
\* TableDefinition.name through _sanitize_name
Resolves(t) == SanitizeName(t.name)

HasTable(t) == \E p \in physical : p.name = Resolves(t)

RegistryUnchanged ==
  /\ tableDefs = regOp.before.t
  /\ columnDefs = regOp.before.c
  /\ physical = regOp.before.p

\* C11: in sequences of create_table and delete_table where DDL statements
\* may fail, a create_table whose CREATE TABLE fails returns an error and
\* leaves no TableDefinition or ColumnDefinition row behind, and every
\* schema in the registry has its physical table.
C11_NoSchemaWithoutTable ==
  /\ (regOp.op = "create_table" /\ regOp.ddl /\ regOp.fail # "none")
       => /\ regOp.status = "error"
          /\ tableDefs = regOp.before.t
          /\ columnDefs = regOp.before.c
  /\ \A t \in tableDefs : HasTable(t)

\* C12: after serialized create_table, register_existing_table and
\* delete_table calls no two registered schemas resolve to the same physical
\* table name, and creating or registering an internal name that is already
\* registered returns an error without DDL and changes nothing.
C12_DistinctPhysicalNames ==
  /\ \A t1, t2 \in tableDefs : t1.id # t2.id => Resolves(t1) # Resolves(t2)
  /\ (/\ regOp.op \in {"create_table", "register_existing_table"}
      /\ \E t \in regOp.before.t : t.name = regOp.name)
       => /\ regOp.status = "error"
          /\ ~regOp.ddl
          /\ RegistryUnchanged

\* a name of letters, digits and underscore only that is not empty
ValidIdentifier(name) ==
  /\ SanitizeName(name) # <<>>
  /\ \A i \in 1..Len(name) :
       name[i] \in Range(LowerLetters) \cup Range(UpperLetters) \cup Range(Digits) \cup {"_"}

\* C13: create_table rejects a table name or column name that is empty
\* after sanitization or holds a character outside letters, digits and
\* underscore before any DDL statement is executed, and the rejected call
\* changes neither the registry nor the physical tables.
C13_InvalidNameRejected ==
  (/\ regOp.op = "create_table"
   /\ \/ ~ValidIdentifier(regOp.args.name)
      \/ \E i \in 1..Len(regOp.args.columns) : ~ValidIdentifier(regOp.args.columns[i].name))
    => /\ regOp.status = "error"
       /\ ~regOp.ddl
       /\ RegistryUnchanged

Defaults == {t \in tableDefs : t.is_default}

\* C14: after serialized create_table, register_existing_table,
\* update_table(is_default=...) and delete_table calls at most one schema
\* has is_default = true; the first schema added to an empty registry
\* becomes the default, and update_table(is_default=true) on another schema
\* moves the flag so that exactly that schema is the default.
C14_AtMostOneDefault ==
  /\ Cardinality(Defaults) <= 1
  /\ (/\ regOp.op \in {"create_table", "register_existing_table"}
      /\ regOp.status = "success"
      /\ regOp.before.t = {})
       => Defaults = TableById(regOp.id) /\ Cardinality(Defaults) = 1
  /\ (regOp.op = "update_table" /\ regOp.status = "success" /\ regOp.args.is_default = 1)
       => Defaults = TableById(regOp.id) /\ Cardinality(Defaults) = 1

\* update_table(is_default=true) took the flag from another schema
C14_Witness ==
  /\ regOp.op = "update_table" /\ regOp.status = "success" /\ regOp.args.is_default = 1
  /\ \E t \in regOp.before.t : t.is_default /\ t.id # regOp.id
  /\ \E t \in tableDefs : t.id = regOp.id /\ t.is_default
  /\ Cardinality(tableDefs) >= 2

\* C15: in every registry state reached through create_table and
\* register_existing_table (fed by SchemaInspector.get_table_columns) the
\* ColumnDefinition names of a schema are pairwise distinct, also after
\* sanitization, and none of them is a reserved physical column.
C15_ColumnNamesDistinctUnreserved ==
  /\ \A c1, c2 \in columnDefs :
       (c1.table_id = c2.table_id /\ c1 # c2)
         => c1.name # c2.name /\ SanitizeName(c1.name) # SanitizeName(c2.name)
  /\ \A c \in columnDefs :
       c.name \notin ReservedNames /\ SanitizeName(c.name) \notin ReservedNames

\* C16: for every input string, with or without non-ASCII letters and
\* digits, _sanitize_name(s) holds only characters of a-z, 0-9 and
\* underscore, and _sanitize_name(_sanitize_name(s)) = _sanitize_name(s).
C16_SanitizedIsIdentifier ==
  /\ san.stage >= 1 =>
       \A i \in 1..Len(san.once) :
         san.once[i] \in Range(LowerLetters) \cup Range(Digits) \cup {"_"}
  /\ san.stage = 2 => san.twice = san.once

\* C17: no cache operation failure surfaces to the caller: when the
\* networked backend meets a transport error, get returns a miss, set and
\* clear do nothing, delete returns false, keys returns an empty list so
\* that invalidate_prefix returns 0, and none of get, set, delete,
\* invalidate_prefix, clear and stats of CacheService raises.
C17_CacheFailuresSwallowed ==
  /\ svcOp.op \in {"get", "set", "delete", "invalidate_prefix", "clear", "stats"}
       => ~svcOp.raised
  /\ (backendType = "redis" /\ svcOp.fail)
       => /\ svcOp.op = "get" => svcOp.result = <<>>
          /\ svcOp.op \in {"set", "clear"} => redisStore = svcOp.before
          /\ svcOp.op = "delete" => svcOp.result = <<FALSE>> /\ redisStore = svcOp.before
          /\ svcOp.op = "invalidate_prefix"
               => svcOp.result = <<0>> /\ redisStore = svcOp.before

\* a get of a key that is in the networked cache met a transport error and
\* returned a miss
C17_Witness ==
  /\ backendType = "redis"
  /\ svcOp.op = "get" /\ svcOp.fail /\ svcOp.result = <<>>
  /\ \A key \in CacheKeys : RedisLookup(redisStore, RedisKey(key)) # {}

C19_FailedUpsertChangesNothing ==
  lastOp.op = "upsert_data"
    => /\ (TableById(lastOp.table_id) = {} \/ lastOp.raised) => lastOp.status = "error"
       /\ lastOp.status = "error"
            => /\ rows = lastOp.before.rows
               /\ cache = lastOp.before.cache

\* an INSERT that the server rejected, with a row of another key stored
\* and the row count cached
C19_Witness ==
  /\ lastOp.op = "upsert_data" /\ lastOp.status = "error"
  /\ lastOp.table_id = TableId /\ lastOp.data["a"] = Txt /\ ~lastOp.raised
  /\ rows # {}
  /\ Served(TotalCountKey(TableId))

C21_NonSummableOverwrittenOrKept ==
  (lastOp.op = "upsert_data" /\ lastOp.status = "success" /\ lastOp.action = "updated")
    => \A r \in RowById(lastOp.id) :
         \A c \in ColNames \ SumIntCols :
           r.v[c] = IF lastOp.data[c] # Absent THEN Stored(c, lastOp.data[c])
                    ELSE lastOp.old[c]

\* the two calls ran on one key, both found no row, and no statement of
\* either met an outside failure
BothFoundNone(w1, w2) ==
  /\ w1 # w2
  /\ writers[w1].pc = "done" /\ writers[w2].pc = "done"
  /\ writers[w1].uid = writers[w2].uid /\ writers[w1].tgl = writers[w2].tgl
  /\ writers[w1].found = <<>> /\ writers[w2].found = <<>>
  /\ ~writers[w1].failed /\ ~writers[w2].failed

\* C22: two concurrent upsert_data calls on one (schema, unit_kerja_id,
\* tanggal) with their own sessions that both ran the existence SELECT before
\* either INSERT committed both take the insert branch, both succeed, and the
\* key is left with two physical rows: no lock, unique key or retry of
\* upsert_data prevents it.
C22_ConcurrentUpsertsDuplicateKey ==
  \A w1, w2 \in Writers :
    BothFoundNone(w1, w2)
      => /\ writers[w1].status = "success" /\ writers[w1].action = "inserted"
         /\ writers[w2].status = "success" /\ writers[w2].action = "inserted"
         /\ Cardinality(Matching(writers[w1].uid, writers[w1].tgl)) >= 2

\* both calls returned 'inserted' and the key has two rows
C22_Witness ==
  /\ \E w1, w2 \in Writers : BothFoundNone(w1, w2)
  /\ Cardinality(Matching(MainKey[1], MainKey[2])) = 2
  /\ \A w \in Writers : writers[w].action = "inserted" /\ writers[w].uid = MainKey[1]

\* C23: when the summary table exists, at least one raw row matches
\* (unit_kerja_id, year, month) of the date and no statement of the call
\* fails, update_summary_row leaves exactly one cell for (month 'YYYY-MM',
\* unit), every metric of it is the sum of the column over exactly the
\* matching raw rows, and it updated the cell if one existed and inserted it
\* otherwise.
C23_RecomputeWritesRawSums ==
  (/\ lastOp.op = "update_summary_row" /\ lastOp.status = "success"
   /\ lastOp.table_id = TableId
   /\ summaryExists
   /\ CellRows(lastOp.uid, lastOp.tgl.y, lastOp.tgl.m) # {})
    => LET was == {c \in lastOp.before.summary :
                     c.uid = lastOp.uid /\ c.month = PyMonthStr(lastOp.tgl.y, lastOp.tgl.m)}
           now == CellsOf(lastOp.uid, lastOp.tgl.y, lastOp.tgl.m)
       IN
       /\ Cardinality(now) = 1
       /\ \A cell \in now :
            /\ cell.year = lastOp.tgl.y
            /\ \A c \in MetricCols :
                 cell.m[c] = RawSum(CellRows(lastOp.uid, lastOp.tgl.y, lastOp.tgl.m), c)
       /\ lastOp.action = (IF was # {} THEN "update" ELSE "insert")

\* a cell that held the sums of one row was updated to the sums of two
C23_Witness ==
  /\ lastOp.op = "update_summary_row" /\ lastOp.action = "update"
  /\ Cardinality(CellRows(lastOp.uid, lastOp.tgl.y, lastOp.tgl.m)) = 2
  /\ \E c \in lastOp.before.summary : c.uid = lastOp.uid /\ c.m["a"] = 2
  /\ \E cell \in CellsOf(lastOp.uid, lastOp.tgl.y, lastOp.tgl.m) :
       cell.m["a"] = 4 /\ cell.m["total"] = 6

\* the cell other than the one of (month of the date, unit)
OtherCell(cell) ==
  cell.uid # lastOp.uid \/ cell.month # PyMonthStr(lastOp.tgl.y, lastOp.tgl.m)

\* C29: update_summary_row(table, unit, date) modifies at most the summary
\* cell of (month of date, unit): every other cell and every raw row is
\* unchanged; it changes nothing when no summary table exists for the table,
\* when the table is not registered, when there is no metric column or when
\* a statement fails; and it never raises to its caller.
C29_RecomputeTouchesOneCell ==
  lastOp.op = "update_summary_row"
    => /\ ~lastOp.raised
       /\ rows = lastOp.before.rows
       /\ summaryExists = lastOp.before.exists
       /\ \A cell \in summary \cup lastOp.before.summary :
            OtherCell(cell) => (cell \in summary /\ cell \in lastOp.before.summary)
       /\ (\/ ~lastOp.before.exists
           \/ TableById(lastOp.table_id) = {}
           \/ MetricCols = {}
           \/ lastOp.status = "error")
            => summary = lastOp.before.summary

\* the cell of one unit was removed while the cell of the other unit for
\* the same month stayed as it was
C29_Witness ==
  /\ lastOp.op = "update_summary_row" /\ lastOp.action = "delete"
  /\ summary # lastOp.before.summary
  /\ \E cell \in summary :
       /\ cell.uid # lastOp.uid
       /\ cell.month = PyMonthStr(lastOp.tgl.y, lastOp.tgl.m)
       /\ cell \in lastOp.before.summary

\* C24: the metric columns of the summary table are exactly the summable
\* ColumnDefinitions of the schema: a column is a metric of a summary cell,
\* written by create_summary_table or by update_summary_row, iff the
\* registry marks it is_summable (so the reserved total column is none).
C24_SummaryMetricsAreSummable ==
  \A cell \in summary :
    DOMAIN cell.m = {c \in ColNames : ColDef(c).is_summable}

\* C27: when create_summary_table fails at any step (drop, create or
\* populate), the summary table is afterwards either absent or the table of
\* before the call with its content, never a newly created table that is
\* empty while check_summary_exists reports it.
C27_FailedRebuildAbsentOrEarlier ==
  (lastOp.op = "create_summary_table" /\ lastOp.status = "error")
    => \/ ~CheckSummaryExists
       \/ lastOp.before.exists /\ summary = lastOp.before.summary

\* C25: every schema or column identifier in the text of a statement sent
\* by TableService, GenericSummaryService or the statistics read path is the
\* result of _sanitize_name on the name it stands for, or is that name
\* itself and matches ^[a-zA-Z0-9_]+$; no statement holds an identifier
\* that neither validator produced.
C25_IdentifiersValidated ==
  \A e \in regOp.idents :
    \/ e.text = SanitizeName(e.raw)
    \/ e.text = e.raw /\ MatchesIdentifier(e.raw)

\* C26: an InMemoryCacheBackend of any max_size never holds more than
\* max_size entries after any sequence of set, get, delete and clear, and an
\* entry that get returns is not expired.
C26_InMemoryNeverExceedsMaxSize ==
  /\ Len(mem.store) <= mem.max_size
  /\ (mem.op = "get" /\ mem.hit) => ~mem.stale

\* no upsert_data call and no read is between two of its steps
Quiescent ==
  /\ \A w \in Writers : writers[w].pc \in {"idle", "done"}
  /\ reader.pc = "idle"

\* C28: under any interleaving of upsert_data calls (own session, or the
\* session of process_upload that is committed after the call) with
\* unfiltered get_dynamic_data reads, once the writes have committed and
\* their invalidation has run, the entry total_count_<table_id> is absent
\* or holds the committed row count.
C28_TotalCountNotStaleAfterCommit ==
  (Quiescent /\ Served(TotalCountKey(TableId)))
    => BackendGet(cache, TotalCountKey(TableId)).value = <<Cardinality(rows)>>

\* C30: process_upload called without a table_id, as the upload route calls
\* it, resolves the default schema of the registry: when the registry has a
\* default schema the call does not fail with 'table not found', every
\* valid row of a readable file is upserted, and inserted + updated +
\* skipped equals total_rows.
C30_UploadWithoutTableIdUsesDefault ==
  (upload.op = "process_upload" /\ upload.table_id = Null /\ upload.default)
    => /\ upload.message \notin {"Tabel tidak ditemukan", "Definisi tabel tidak ditemukan"}
       /\ upload.inserted + upload.updated + upload.skipped = upload.total_rows
       /\ (upload.file.error = "none" /\ upload.file.rows # <<>>) =>
            upload.inserted + upload.updated =
              Cardinality({i \in 1..Len(upload.file.rows) : upload.file.rows[i].kind = "valid"})

====
